---- MODULE Spec2Model ----
(***************************************************************************)
(* Hisaab.AI spending analytics: the five analytic tools                   *)
(*   aggregate_user_monthly_data   (CoreAggregatorTool.py)                 *)
(*   get_category_trends           (TrendTool.py)                          *)
(*   detect_recurring_expenses     (RecurringExpenseTool.py)               *)
(*   detect_anomalies_for_user     (anomolytool.py)                        *)
(*   analyze_time_slots            (TimeSlotTool.py)                       *)
(* over the Firestore collections users/{uid}/transactions and             *)
(* users/{uid}/analytics, the DashboardPipelineAgent whose language-model  *)
(* agents may call them (InsightsAgents.py), and the ingestion of a        *)
(* receipt by                                                              *)
(* store_receipt_data (wallet_creator.py) into receipts and                *)
(* users/{uid}/receipts.                                                   *)
(*                                                                         *)
(* Conventions of the model.                                               *)
(*  - A Python str is the sequence of its code points ("Milk" is           *)
(*    <<77,105,108,107>>), so lower(), strip(), strftime() and the string  *)
(*    order used by sorted() are computed, not assumed.                    *)
(*  - A Python dict is the sequence of its <<key, value>> pairs in         *)
(*    insertion order.                                                     *)
(*  - Amounts are integers (whole currency units).  A true division a / b  *)
(*    is the exact fraction [num, den]; round(x, 2) yields an integer      *)
(*    number of hundredths (85.00 is 8500).                                *)
(*  - An exception leaving a tool is the result [raised |-> <name>].       *)
(*  - The wall-clock fields generated_at / detected_at are not modelled.   *)
(***************************************************************************)
EXTENDS Integers, Sequences, FiniteSets, TLC

VARIABLES
    transactions,         \* users/{uid}/transactions, in stream() order
    analytics,            \* users/{uid}/analytics: sequence of <<doc_id, document>>
    \* What the last call of each tool returned (or raised).  The variables bear
    \* the names the spec gives to the five reports.
    dashboard_metrics,    \* aggregate_user_monthly_data(uid, year, month)
    trend_insights,       \* get_category_trends(uid, year, month)
    recurring_expenses,   \* detect_recurring_expenses(uid)
    spending_anomalies,   \* detect_anomalies_for_user(uid)
    time_slot_breakdown,  \* analyze_time_slots(uid)
    receipts,             \* receipts: sequence of <<receipt_id, document>>
    user_receipts,        \* users/{uid}/receipts: <<<<uid, receipt_id>>, document>>
    store_result,         \* last result of store_receipt_data
    store_call,           \* where the running call of store_receipt_data stands
    tool_runs,            \* where the running call of each of the five tools stands
    sub_agent,            \* DashboardPipelineAgent: index of the running sub-agent
    llm_flow,             \* where the running LlmAgent stands with its model
    session_state         \* the session state: sequence of <<output_key, text>>

\* the variables of the ingestion and of the pipeline
ingestion == <<receipts, user_receipts, store_result, store_call>>
pipeline  == <<sub_agent, llm_flow, session_state>>

vars == <<transactions, analytics, dashboard_metrics, trend_insights,
          recurring_expenses, spending_anomalies, time_slot_breakdown,
          ingestion, pipeline, tool_runs>>

\* the five tool functions
ToolNames ==
    {"aggregate_user_monthly_data", "get_category_trends",
     "detect_recurring_expenses", "detect_anomalies_for_user",
     "analyze_time_slots"}

\* The tool has not been called yet.
NotRun == [not_run |-> TRUE]

HasRun(result) == "not_run" \notin DOMAIN result

Returned(result) == HasRun(result) /\ "raised" \notin DOMAIN result

\* the user whose collections the variables transactions and analytics hold
Uid == <<117,49>>   \* "u1"

---------------------------------------------------------------------------
(* Python built-ins used by the tools                                      *)

Range(s) == {s[i] : i \in DOMAIN s}

RECURSIVE SumSeq(_)
\* sum(xs)
SumSeq(xs) ==
    IF xs = <<>> THEN 0 ELSE xs[1] + SumSeq(Tail(xs))

\* d.keys() / d.values() of a dict kept as <<key, value>> pairs
DictKeys(d) == [i \in DOMAIN d |-> d[i][1]]

DictValues(d) == [i \in DOMAIN d |-> d[i][2]]

HasKey(d, k) == \E i \in DOMAIN d : d[i][1] = k

\* d.get(k, default)
DictGet(d, k, default) ==
    IF HasKey(d, k)
    THEN d[CHOOSE i \in DOMAIN d : d[i][1] = k][2]
    ELSE default

\* d[k] = v : an existing key keeps its position, a new key goes last
DictSet(d, k, v) ==
    IF HasKey(d, k)
    THEN [i \in DOMAIN d |-> IF d[i][1] = k THEN <<k, v>> ELSE d[i]]
    ELSE Append(d, <<k, v>>)

\* a / b (true division): ZeroDivisionError when b = 0, else the exact quotient
TrueDiv(a, b) == [raised |-> b = 0, num |-> a, den |-> b]

Abs(n) == IF n < 0 THEN -n ELSE n

\* ---- binary floating point (IEEE 754 binary64, round to nearest even) ----
\* A natural number of any size is the sequence of its binary digits, most
\* significant first.  A positive float is [m, e]: 53 binary digits m, the
\* first of them 1, and the exponent e of the last one (the value is m * 2^e).

Reverse(s) == [i \in 1..Len(s) |-> s[Len(s) + 1 - i]]

RECURSIVE BitsValue(_)
\* the number a sequence of binary digits denotes
BitsValue(bits) ==
    IF bits = <<>> THEN 0
    ELSE 2 * BitsValue(SubSeq(bits, 1, Len(bits) - 1)) + bits[Len(bits)]

RECURSIVE BitsTimes(_, _, _)
\* digits (least significant first) times the small number n, plus carry
BitsTimes(low_first, n, carry) ==
    IF low_first = <<>>
    THEN IF carry = 0 THEN <<>>
         ELSE <<carry % 2>> \o BitsTimes(<<>>, n, carry \div 2)
    ELSE LET t == low_first[1] * n + carry
         IN  <<t % 2>> \o BitsTimes(Tail(low_first), n, t \div 2)

RECURSIVE BitsPlusOne(_)
\* digits (least significant first) plus one
BitsPlusOne(low_first) ==
    IF low_first = <<>> THEN <<1>>
    ELSE IF low_first[1] = 0 THEN <<1>> \o Tail(low_first)
    ELSE <<0>> \o BitsPlusOne(Tail(low_first))

\* the float nearest to bits * 2^e (+ something below the last digit when
\* `sticky`), bits having at least 53 digits, the first of them 1: the 53
\* leading digits, one more when the rest is above half a unit of the last
\* place, or is exactly half and the last digit is odd
RoundToFloat(bits, e, sticky) ==
    LET Carried(m1, exp) ==
            IF Len(m1) = 53 THEN [m |-> m1, e |-> exp]
            ELSE [m |-> SubSeq(m1, 1, 53), e |-> exp + 1]
        Nearest(m, exp, up) ==
            IF ~up THEN [m |-> m, e |-> exp]
            ELSE Carried(Reverse(BitsPlusOne(Reverse(m))), exp)
        Leading(m, extra) ==
            Nearest(m, e + extra,
                    /\ extra > 0
                    /\ bits[54] = 1
                    /\ \/ sticky
                       \/ \E i \in 55..Len(bits) : bits[i] = 1
                       \/ m[53] = 1)
    IN  Leading(SubSeq(bits, 1, 53), Len(bits) - 53)

RECURSIVE LongDivision(_, _, _, _, _)
\* the first 54 significant binary digits of a / b (0 < a, 0 < b): the digit
\* of position i is found from the remainder r of the positions above it
LongDivision(a, b, i, r, bits) ==
    IF Len(bits) = 54 THEN [bits |-> bits, e |-> i + 1, rem |-> r]
    ELSE LET r2 == 2 * r + (IF i >= 0 THEN (a \div (2 ^ i)) % 2 ELSE 0)
             q  == IF r2 >= b THEN 1 ELSE 0
         IN  LongDivision(a, b, i - 1, r2 - q * b,
                          IF bits = <<>> /\ q = 0 THEN bits ELSE Append(bits, q))

\* float(a) / float(b) for integers 0 < a, 0 < b < 2^30
FloatDiv(a, b) ==
    LET Nearest(d) == RoundToFloat(d.bits, d.e, d.rem # 0)
    IN  Nearest(LongDivision(a, b, 30, 0, <<>>))

\* x * n for a float x and a small integer n > 0
FloatTimes(x, n) ==
    RoundToFloat(Reverse(BitsTimes(Reverse(x.m), n, 0)), x.e, FALSE)

\* round(x, 2) for a float 0 < x < 2^24, in hundredths: the integer nearest
\* to 100 * x in exact arithmetic, the even one when x lies half way
FloatRound2(x) ==
    LET Nearest(k, guard, rest) ==
            IF guard = 1 /\ (rest \/ k % 2 = 1) THEN k + 1 ELSE k
        \* the first `whole` digits are those of the integer part
        Split(padded, whole) ==
            Nearest(BitsValue(SubSeq(padded, 1, whole)), padded[whole + 1],
                    \E i \in (whole + 2)..Len(padded) : padded[i] = 1)
        Padded(padded, frac) == Split(padded, Len(padded) - frac)
        Product(n, frac) ==
            Padded(IF Len(n) < frac + 1
                   THEN [i \in 1..(frac + 1 - Len(n)) |-> 0] \o n ELSE n,
                   frac)
    IN  Product(Reverse(BitsTimes(Reverse(x.m), 100, 0)), -x.e)

\* round(num / den, 2) for integers, den # 0, as a number of hundredths.
\* num / den is the float nearest to the quotient and round() takes the
\* hundredth nearest to that float.  Unless 100 * num / den lies exactly half
\* way between two integers the float is too close to the quotient to change
\* the outcome (200 * |num| < 2^53); on a half the float decides
\* (round(1 / 8, 2) is 0.12, round(1 / 40, 2) is 0.03).
Round2(num, den) ==
    LET Signed(mag) == IF (num < 0) # (den < 0) THEN -mag ELSE mag
        Nearest(d, q, r) ==
            Signed(IF 2 * r = d THEN FloatRound2(FloatDiv(Abs(num), d))
                   ELSE IF 2 * r > d THEN q + 1 ELSE q)
        Scaled(scaled, d) == Nearest(d, scaled \div d, scaled % d)
    IN  Scaled(100 * Abs(num), Abs(den))

\* round(num / den * 100, 2) in hundredths: the quotient is rounded to a
\* float, its product with 100 again, and round() takes the nearest hundredth
\* (20000 * |num| < 2^52 keeps the two roundings from crossing a half)
Round2Times100(num, den) ==
    LET Signed(mag) == IF (num < 0) # (den < 0) THEN -mag ELSE mag
        Nearest(d, q, r) ==
            Signed(IF num = 0 THEN 0
                   ELSE IF 2 * r = d
                   THEN FloatRound2(FloatTimes(FloatDiv(Abs(num), d), 100))
                   ELSE IF 2 * r > d THEN q + 1 ELSE q)
        Scaled(scaled, d) == Nearest(d, scaled \div d, scaled % d)
    IN  Scaled(10000 * Abs(num), Abs(den))

\* The case tables of the Unicode database the interpreter carries (14.0).
\* <<first, last, step, delta>>: the capitals first, first + step, ..., last
\* have the small letter delta code points further on
LowerRuns ==
    { <<192,214,1,32>>, <<216,222,1,32>>, <<256,302,2,1>>, <<306,310,2,1>>,
      <<313,327,2,1>>, <<330,374,2,1>>, <<376,376,1,-121>>, <<377,381,2,1>>,
      <<385,385,1,210>>, <<386,388,2,1>>, <<390,390,1,206>>, <<391,391,1,1>>,
      <<393,394,1,205>>, <<395,395,1,1>>, <<398,398,1,79>>, <<399,399,1,202>>,
      <<400,400,1,203>>, <<401,401,1,1>>, <<403,403,1,205>>, <<404,404,1,207>>,
      <<406,406,1,211>>, <<407,407,1,209>>, <<408,408,1,1>>, <<412,412,1,211>>,
      <<413,413,1,213>>, <<415,415,1,214>>, <<416,420,2,1>>, <<422,422,1,218>>,
      <<423,423,1,1>>, <<425,425,1,218>>, <<428,428,1,1>>, <<430,430,1,218>>,
      <<431,431,1,1>>, <<433,434,1,217>>, <<435,437,2,1>>, <<439,439,1,219>>,
      <<440,440,1,1>>, <<444,444,1,1>>, <<452,452,1,2>>, <<453,453,1,1>>,
      <<455,455,1,2>>, <<456,456,1,1>>, <<458,458,1,2>>, <<459,475,2,1>>,
      <<478,494,2,1>>, <<497,497,1,2>>, <<498,500,2,1>>, <<502,502,1,-97>>,
      <<503,503,1,-56>>, <<504,542,2,1>>, <<544,544,1,-130>>, <<546,562,2,1>>,
      <<570,570,1,10795>>, <<571,571,1,1>>, <<573,573,1,-163>>,
      <<574,574,1,10792>>, <<577,577,1,1>>, <<579,579,1,-195>>,
      <<580,580,1,69>>, <<581,581,1,71>>, <<582,590,2,1>>, <<880,882,2,1>>,
      <<886,886,1,1>>, <<895,895,1,116>>, <<902,902,1,38>>, <<904,906,1,37>>,
      <<908,908,1,64>>, <<910,911,1,63>>, <<913,929,1,32>>, <<931,939,1,32>>,
      <<975,975,1,8>>, <<984,1006,2,1>>, <<1012,1012,1,-60>>, <<1015,1015,1,1>>,
      <<1017,1017,1,-7>>, <<1018,1018,1,1>>, <<1021,1023,1,-130>>,
      <<1024,1039,1,80>>, <<1040,1071,1,32>>, <<1120,1152,2,1>>,
      <<1162,1214,2,1>>, <<1216,1216,1,15>>, <<1217,1229,2,1>>,
      <<1232,1326,2,1>>, <<1329,1366,1,48>>, <<4256,4293,1,7264>>,
      <<4295,4295,1,7264>>, <<4301,4301,1,7264>>, <<5024,5103,1,38864>>,
      <<5104,5109,1,8>>, <<7312,7354,1,-3008>>, <<7357,7359,1,-3008>>,
      <<7680,7828,2,1>>, <<7838,7838,1,-7615>>, <<7840,7934,2,1>>,
      <<7944,7951,1,-8>>, <<7960,7965,1,-8>>, <<7976,7983,1,-8>>,
      <<7992,7999,1,-8>>, <<8008,8013,1,-8>>, <<8025,8031,2,-8>>,
      <<8040,8047,1,-8>>, <<8072,8079,1,-8>>, <<8088,8095,1,-8>>,
      <<8104,8111,1,-8>>, <<8120,8121,1,-8>>, <<8122,8123,1,-74>>,
      <<8124,8124,1,-9>>, <<8136,8139,1,-86>>, <<8140,8140,1,-9>>,
      <<8152,8153,1,-8>>, <<8154,8155,1,-100>>, <<8168,8169,1,-8>>,
      <<8170,8171,1,-112>>, <<8172,8172,1,-7>>, <<8184,8185,1,-128>>,
      <<8186,8187,1,-126>>, <<8188,8188,1,-9>>, <<8486,8486,1,-7517>>,
      <<8490,8490,1,-8383>>, <<8491,8491,1,-8262>>, <<8498,8498,1,28>>,
      <<8544,8559,1,16>>, <<8579,8579,1,1>>, <<9398,9423,1,26>>,
      <<11264,11311,1,48>>, <<11360,11360,1,1>>, <<11362,11362,1,-10743>>,
      <<11363,11363,1,-3814>>, <<11364,11364,1,-10727>>, <<11367,11371,2,1>>,
      <<11373,11373,1,-10780>>, <<11374,11374,1,-10749>>,
      <<11375,11375,1,-10783>>, <<11376,11376,1,-10782>>, <<11378,11378,1,1>>,
      <<11381,11381,1,1>>, <<11390,11391,1,-10815>>, <<11392,11490,2,1>>,
      <<11499,11501,2,1>>, <<11506,11506,1,1>>, <<42560,42604,2,1>>,
      <<42624,42650,2,1>>, <<42786,42798,2,1>>, <<42802,42862,2,1>>,
      <<42873,42875,2,1>>, <<42877,42877,1,-35332>>, <<42878,42886,2,1>>,
      <<42891,42891,1,1>>, <<42893,42893,1,-42280>>, <<42896,42898,2,1>>,
      <<42902,42920,2,1>>, <<42922,42922,1,-42308>>, <<42923,42923,1,-42319>>,
      <<42924,42924,1,-42315>>, <<42925,42925,1,-42305>>,
      <<42926,42926,1,-42308>>, <<42928,42928,1,-42258>>,
      <<42929,42929,1,-42282>>, <<42930,42930,1,-42261>>, <<42931,42931,1,928>>,
      <<42932,42946,2,1>>, <<42948,42948,1,-48>>, <<42949,42949,1,-42307>>,
      <<42950,42950,1,-35384>>, <<42951,42953,2,1>>, <<42960,42960,1,1>>,
      <<42966,42968,2,1>>, <<42997,42997,1,1>>, <<65313,65338,1,32>>,
      <<66560,66599,1,40>>, <<66736,66771,1,40>>, <<66928,66938,1,39>>,
      <<66940,66954,1,39>>, <<66956,66962,1,39>>, <<66964,66965,1,39>>,
      <<68736,68786,1,64>>, <<71840,71871,1,32>>, <<93760,93791,1,32>>,
      <<125184,125217,1,34>> }

\* <<first, last>>: the case-ignorable characters (apostrophe, full stop,
\* combining marks, modifier letters, ...)
CaseIgnorableRuns ==
    { <<39,39>>, <<46,46>>, <<58,58>>, <<94,94>>, <<96,96>>, <<168,168>>,
      <<173,173>>, <<175,175>>, <<180,180>>, <<183,184>>, <<688,879>>,
      <<884,885>>, <<890,890>>, <<900,901>>, <<903,903>>, <<1155,1161>>,
      <<1369,1369>>, <<1375,1375>>, <<1425,1469>>, <<1471,1471>>, <<1473,1474>>,
      <<1476,1477>>, <<1479,1479>>, <<1524,1524>>, <<1536,1541>>, <<1552,1562>>,
      <<1564,1564>>, <<1600,1600>>, <<1611,1631>>, <<1648,1648>>, <<1750,1757>>,
      <<1759,1768>>, <<1770,1773>>, <<1807,1807>>, <<1809,1809>>, <<1840,1866>>,
      <<1958,1968>>, <<2027,2037>>, <<2042,2042>>, <<2045,2045>>, <<2070,2093>>,
      <<2137,2139>>, <<2184,2184>>, <<2192,2193>>, <<2200,2207>>, <<2249,2306>>,
      <<2362,2362>>, <<2364,2364>>, <<2369,2376>>, <<2381,2381>>, <<2385,2391>>,
      <<2402,2403>>, <<2417,2417>>, <<2433,2433>>, <<2492,2492>>, <<2497,2500>>,
      <<2509,2509>>, <<2530,2531>>, <<2558,2558>>, <<2561,2562>>, <<2620,2620>>,
      <<2625,2626>>, <<2631,2632>>, <<2635,2637>>, <<2641,2641>>, <<2672,2673>>,
      <<2677,2677>>, <<2689,2690>>, <<2748,2748>>, <<2753,2757>>, <<2759,2760>>,
      <<2765,2765>>, <<2786,2787>>, <<2810,2815>>, <<2817,2817>>, <<2876,2876>>,
      <<2879,2879>>, <<2881,2884>>, <<2893,2893>>, <<2901,2902>>, <<2914,2915>>,
      <<2946,2946>>, <<3008,3008>>, <<3021,3021>>, <<3072,3072>>, <<3076,3076>>,
      <<3132,3132>>, <<3134,3136>>, <<3142,3144>>, <<3146,3149>>, <<3157,3158>>,
      <<3170,3171>>, <<3201,3201>>, <<3260,3260>>, <<3263,3263>>, <<3270,3270>>,
      <<3276,3277>>, <<3298,3299>>, <<3328,3329>>, <<3387,3388>>, <<3393,3396>>,
      <<3405,3405>>, <<3426,3427>>, <<3457,3457>>, <<3530,3530>>, <<3538,3540>>,
      <<3542,3542>>, <<3633,3633>>, <<3636,3642>>, <<3654,3662>>, <<3761,3761>>,
      <<3764,3772>>, <<3782,3782>>, <<3784,3789>>, <<3864,3865>>, <<3893,3893>>,
      <<3895,3895>>, <<3897,3897>>, <<3953,3966>>, <<3968,3972>>, <<3974,3975>>,
      <<3981,3991>>, <<3993,4028>>, <<4038,4038>>, <<4141,4144>>, <<4146,4151>>,
      <<4153,4154>>, <<4157,4158>>, <<4184,4185>>, <<4190,4192>>, <<4209,4212>>,
      <<4226,4226>>, <<4229,4230>>, <<4237,4237>>, <<4253,4253>>, <<4348,4348>>,
      <<4957,4959>>, <<5906,5908>>, <<5938,5939>>, <<5970,5971>>, <<6002,6003>>,
      <<6068,6069>>, <<6071,6077>>, <<6086,6086>>, <<6089,6099>>, <<6103,6103>>,
      <<6109,6109>>, <<6155,6159>>, <<6211,6211>>, <<6277,6278>>, <<6313,6313>>,
      <<6432,6434>>, <<6439,6440>>, <<6450,6450>>, <<6457,6459>>, <<6679,6680>>,
      <<6683,6683>>, <<6742,6742>>, <<6744,6750>>, <<6752,6752>>, <<6754,6754>>,
      <<6757,6764>>, <<6771,6780>>, <<6783,6783>>, <<6823,6823>>, <<6832,6862>>,
      <<6912,6915>>, <<6964,6964>>, <<6966,6970>>, <<6972,6972>>, <<6978,6978>>,
      <<7019,7027>>, <<7040,7041>>, <<7074,7077>>, <<7080,7081>>, <<7083,7085>>,
      <<7142,7142>>, <<7144,7145>>, <<7149,7149>>, <<7151,7153>>, <<7212,7219>>,
      <<7222,7223>>, <<7288,7293>>, <<7376,7378>>, <<7380,7392>>, <<7394,7400>>,
      <<7405,7405>>, <<7412,7412>>, <<7416,7417>>, <<7468,7530>>, <<7544,7544>>,
      <<7579,7679>>, <<8125,8125>>, <<8127,8129>>, <<8141,8143>>, <<8157,8159>>,
      <<8173,8175>>, <<8189,8190>>, <<8203,8207>>, <<8216,8217>>, <<8228,8228>>,
      <<8231,8231>>, <<8234,8238>>, <<8288,8292>>, <<8294,8303>>, <<8305,8305>>,
      <<8319,8319>>, <<8336,8348>>, <<8400,8432>>, <<11388,11389>>,
      <<11503,11505>>, <<11631,11631>>, <<11647,11647>>, <<11744,11775>>,
      <<11823,11823>>, <<12293,12293>>, <<12330,12333>>, <<12337,12341>>,
      <<12347,12347>>, <<12441,12446>>, <<12540,12542>>, <<40981,40981>>,
      <<42232,42237>>, <<42508,42508>>, <<42607,42610>>, <<42612,42621>>,
      <<42623,42623>>, <<42652,42655>>, <<42736,42737>>, <<42752,42785>>,
      <<42864,42864>>, <<42888,42890>>, <<42994,42996>>, <<43000,43001>>,
      <<43010,43010>>, <<43014,43014>>, <<43019,43019>>, <<43045,43046>>,
      <<43052,43052>>, <<43204,43205>>, <<43232,43249>>, <<43263,43263>>,
      <<43302,43309>>, <<43335,43345>>, <<43392,43394>>, <<43443,43443>>,
      <<43446,43449>>, <<43452,43453>>, <<43471,43471>>, <<43493,43494>>,
      <<43561,43566>>, <<43569,43570>>, <<43573,43574>>, <<43587,43587>>,
      <<43596,43596>>, <<43632,43632>>, <<43644,43644>>, <<43696,43696>>,
      <<43698,43700>>, <<43703,43704>>, <<43710,43711>>, <<43713,43713>>,
      <<43741,43741>>, <<43756,43757>>, <<43763,43764>>, <<43766,43766>>,
      <<43867,43871>>, <<43881,43883>>, <<44005,44005>>, <<44008,44008>>,
      <<44013,44013>>, <<64286,64286>>, <<64434,64450>>, <<65024,65039>>,
      <<65043,65043>>, <<65056,65071>>, <<65106,65106>>, <<65109,65109>>,
      <<65279,65279>>, <<65287,65287>>, <<65294,65294>>, <<65306,65306>>,
      <<65342,65342>>, <<65344,65344>>, <<65392,65392>>, <<65438,65439>>,
      <<65507,65507>>, <<65529,65531>>, <<66045,66045>>, <<66272,66272>>,
      <<66422,66426>>, <<67456,67461>>, <<67463,67504>>, <<67506,67514>>,
      <<68097,68099>>, <<68101,68102>>, <<68108,68111>>, <<68152,68154>>,
      <<68159,68159>>, <<68325,68326>>, <<68900,68903>>, <<69291,69292>>,
      <<69446,69456>>, <<69506,69509>>, <<69633,69633>>, <<69688,69702>>,
      <<69744,69744>>, <<69747,69748>>, <<69759,69761>>, <<69811,69814>>,
      <<69817,69818>>, <<69821,69821>>, <<69826,69826>>, <<69837,69837>>,
      <<69888,69890>>, <<69927,69931>>, <<69933,69940>>, <<70003,70003>>,
      <<70016,70017>>, <<70070,70078>>, <<70089,70092>>, <<70095,70095>>,
      <<70191,70193>>, <<70196,70196>>, <<70198,70199>>, <<70206,70206>>,
      <<70367,70367>>, <<70371,70378>>, <<70400,70401>>, <<70459,70460>>,
      <<70464,70464>>, <<70502,70508>>, <<70512,70516>>, <<70712,70719>>,
      <<70722,70724>>, <<70726,70726>>, <<70750,70750>>, <<70835,70840>>,
      <<70842,70842>>, <<70847,70848>>, <<70850,70851>>, <<71090,71093>>,
      <<71100,71101>>, <<71103,71104>>, <<71132,71133>>, <<71219,71226>>,
      <<71229,71229>>, <<71231,71232>>, <<71339,71339>>, <<71341,71341>>,
      <<71344,71349>>, <<71351,71351>>, <<71453,71455>>, <<71458,71461>>,
      <<71463,71467>>, <<71727,71735>>, <<71737,71738>>, <<71995,71996>>,
      <<71998,71998>>, <<72003,72003>>, <<72148,72151>>, <<72154,72155>>,
      <<72160,72160>>, <<72193,72202>>, <<72243,72248>>, <<72251,72254>>,
      <<72263,72263>>, <<72273,72278>>, <<72281,72283>>, <<72330,72342>>,
      <<72344,72345>>, <<72752,72758>>, <<72760,72765>>, <<72767,72767>>,
      <<72850,72871>>, <<72874,72880>>, <<72882,72883>>, <<72885,72886>>,
      <<73009,73014>>, <<73018,73018>>, <<73020,73021>>, <<73023,73029>>,
      <<73031,73031>>, <<73104,73105>>, <<73109,73109>>, <<73111,73111>>,
      <<73459,73460>>, <<78896,78904>>, <<92912,92916>>, <<92976,92982>>,
      <<92992,92995>>, <<94031,94031>>, <<94095,94111>>, <<94176,94177>>,
      <<94179,94180>>, <<110576,110579>>, <<110581,110587>>, <<110589,110590>>,
      <<113821,113822>>, <<113824,113827>>, <<118528,118573>>,
      <<118576,118598>>, <<119143,119145>>, <<119155,119170>>,
      <<119173,119179>>, <<119210,119213>>, <<119362,119364>>,
      <<121344,121398>>, <<121403,121452>>, <<121461,121461>>,
      <<121476,121476>>, <<121499,121503>>, <<121505,121519>>,
      <<122880,122886>>, <<122888,122904>>, <<122907,122913>>,
      <<122915,122916>>, <<122918,122922>>, <<123184,123197>>,
      <<123566,123566>>, <<123628,123631>>, <<125136,125142>>,
      <<125252,125259>>, <<127995,127999>>, <<917505,917505>>,
      <<917536,917631>>, <<917760,917999>> }

\* <<first, last>>: the cased characters that are not case-ignorable
CasedRuns ==
    { <<65,90>>, <<97,122>>, <<170,170>>, <<181,181>>, <<186,186>>, <<192,214>>,
      <<216,246>>, <<248,442>>, <<444,447>>, <<452,659>>, <<661,687>>,
      <<880,883>>, <<886,887>>, <<891,893>>, <<895,895>>, <<902,902>>,
      <<904,906>>, <<908,908>>, <<910,929>>, <<931,1013>>, <<1015,1153>>,
      <<1162,1327>>, <<1329,1366>>, <<1376,1416>>, <<4256,4293>>, <<4295,4295>>,
      <<4301,4301>>, <<4304,4346>>, <<4349,4351>>, <<5024,5109>>, <<5112,5117>>,
      <<7296,7304>>, <<7312,7354>>, <<7357,7359>>, <<7424,7467>>, <<7531,7543>>,
      <<7545,7578>>, <<7680,7957>>, <<7960,7965>>, <<7968,8005>>, <<8008,8013>>,
      <<8016,8023>>, <<8025,8025>>, <<8027,8027>>, <<8029,8029>>, <<8031,8061>>,
      <<8064,8116>>, <<8118,8124>>, <<8126,8126>>, <<8130,8132>>, <<8134,8140>>,
      <<8144,8147>>, <<8150,8155>>, <<8160,8172>>, <<8178,8180>>, <<8182,8188>>,
      <<8450,8450>>, <<8455,8455>>, <<8458,8467>>, <<8469,8469>>, <<8473,8477>>,
      <<8484,8484>>, <<8486,8486>>, <<8488,8488>>, <<8490,8493>>, <<8495,8500>>,
      <<8505,8505>>, <<8508,8511>>, <<8517,8521>>, <<8526,8526>>, <<8544,8575>>,
      <<8579,8580>>, <<9398,9449>>, <<11264,11387>>, <<11390,11492>>,
      <<11499,11502>>, <<11506,11507>>, <<11520,11557>>, <<11559,11559>>,
      <<11565,11565>>, <<42560,42605>>, <<42624,42651>>, <<42786,42863>>,
      <<42865,42887>>, <<42891,42894>>, <<42896,42954>>, <<42960,42961>>,
      <<42963,42963>>, <<42965,42969>>, <<42997,42998>>, <<43002,43002>>,
      <<43824,43866>>, <<43872,43880>>, <<43888,43967>>, <<64256,64262>>,
      <<64275,64279>>, <<65313,65338>>, <<65345,65370>>, <<66560,66639>>,
      <<66736,66771>>, <<66776,66811>>, <<66928,66938>>, <<66940,66954>>,
      <<66956,66962>>, <<66964,66965>>, <<66967,66977>>, <<66979,66993>>,
      <<66995,67001>>, <<67003,67004>>, <<68736,68786>>, <<68800,68850>>,
      <<71840,71903>>, <<93760,93823>>, <<119808,119892>>, <<119894,119964>>,
      <<119966,119967>>, <<119970,119970>>, <<119973,119974>>,
      <<119977,119980>>, <<119982,119993>>, <<119995,119995>>,
      <<119997,120003>>, <<120005,120069>>, <<120071,120074>>,
      <<120077,120084>>, <<120086,120092>>, <<120094,120121>>,
      <<120123,120126>>, <<120128,120132>>, <<120134,120134>>,
      <<120138,120144>>, <<120146,120485>>, <<120488,120512>>,
      <<120514,120538>>, <<120540,120570>>, <<120572,120596>>,
      <<120598,120628>>, <<120630,120654>>, <<120656,120686>>,
      <<120688,120712>>, <<120714,120744>>, <<120746,120770>>,
      <<120772,120779>>, <<122624,122633>>, <<122635,122654>>,
      <<125184,125251>>, <<127280,127305>>, <<127312,127337>>, <<127344,127369>> }

\* ---- str ----

RECURSIVE Flatten(_)
\* the concatenation of a sequence of sequences
Flatten(seqs) ==
    IF seqs = <<>> THEN <<>> ELSE seqs[1] \o Flatten(Tail(seqs))

InRuns(c, runs) == \E r \in runs : r[1] <= c /\ c <= r[2]

\* chr(c).lower(), a str of one code point except for U+0130
LowerChar(c) ==
    LET Shifted(hit) ==
            IF hit = {} THEN <<c>> ELSE <<c + (CHOOSE r \in hit : TRUE)[4]>>
    IN  IF c \in 65..90 THEN <<c + 32>>
        ELSE IF c < 128 THEN <<c>>
        ELSE IF c = 304 THEN <<105, 775>>
        ELSE Shifted({r \in LowerRuns :
                        r[1] <= c /\ c <= r[2] /\ (c - r[1]) % r[3] = 0})

\* whether the capital sigma at s[i] ends a word: the nearest character before
\* it that is not case-ignorable is cased, and the nearest one after it is not
FinalSigma(s, i) ==
    LET Ends(solid, cased) ==
            LET before == {j \in solid : j < i}
                after  == {j \in solid : j > i}
            IN  /\ before # {}
                /\ (CHOOSE j \in before : \A k \in before : k <= j) \in cased
                /\ \/ after = {}
                   \/ (CHOOSE j \in after : \A k \in after : j <= k) \notin cased
    IN  Ends({j \in DOMAIN s : ~InRuns(s[j], CaseIgnorableRuns)},
             {j \in DOMAIN s : InRuns(s[j], CasedRuns)})

\* str.lower()
Lower(s) ==
    Flatten([i \in DOMAIN s |->
               IF s[i] = 931 THEN (IF FinalSigma(s, i) THEN <<962>> ELSE <<963>>)
               ELSE LowerChar(s[i])])

\* the characters str.strip() removes (str.isspace)
IsSpace(c) ==
    \/ c \in 9..13 \/ c \in 28..32 \/ c = 133 \/ c = 160 \/ c = 5760
    \/ c \in 8192..8202 \/ c = 8232 \/ c = 8233 \/ c = 8239 \/ c = 8287
    \/ c = 12288

RECURSIVE LStrip(_)
LStrip(s) ==
    IF s # <<>> /\ IsSpace(s[1]) THEN LStrip(Tail(s)) ELSE s

RECURSIVE RStrip(_)
RStrip(s) ==
    IF s # <<>> /\ IsSpace(s[Len(s)]) THEN RStrip(SubSeq(s, 1, Len(s) - 1)) ELSE s

\* str.strip()
Strip(s) == RStrip(LStrip(s))

RECURSIVE DecStr(_)
\* str(n) for an int n
DecStr(n) ==
    IF n < 0 THEN <<45>> \o DecStr(-n)
    ELSE IF n < 10 THEN <<48 + n>>
    ELSE DecStr(n \div 10) \o <<48 + (n % 10)>>

\* f"{n:0{width}}": the sign, then zeros up to the width, then the digits
ZeroPad(n, width) ==
    LET sign   == IF n < 0 THEN <<45>> ELSE <<>>
        digits == DecStr(Abs(n))
        fill   == width - Len(sign) - Len(digits)
    IN  sign \o [i \in 1..fill |-> 48] \o digits

\* f"{n:02}"
Str2(n) == ZeroPad(n, 2)

\* f"{year}-{month:02}"
PeriodLabel(year, month) == DecStr(year) \o <<45>> \o Str2(month)

\* ---- datetime ----
\* A stored timestamp is a datetime, [year, month, day, hour] (minutes and
\* seconds are zero), or a str, [str |-> <code points>].
\* isinstance(timestamp, datetime)
IsDatetime(ts) == "year" \in DOMAIN ts

\* datetime.strftime("%Y-%m"): the C library formats %Y, and glibc writes the
\* year without padding (999 is "999")
StrfYearMonth(ts) == DecStr(ts.year) \o <<45>> \o ZeroPad(ts.month, 2)

\* datetime.strftime("%Y-%m-%d")
StrfDate(ts) == StrfYearMonth(ts) \o <<45>> \o ZeroPad(ts.day, 2)

\* datetime.isoformat() of a timestamp on the hour: "YYYY-MM-DDTHH:00:00",
\* the year padded to four digits
Isoformat(ts) ==
    ZeroPad(ts.year, 4) \o <<45>> \o ZeroPad(ts.month, 2) \o <<45>>
      \o ZeroPad(ts.day, 2) \o <<84>> \o ZeroPad(ts.hour, 2)
      \o <<58,48,48,58,48,48>>

IsLeap(y) == y % 4 = 0 /\ (y % 100 # 0 \/ y % 400 = 0)

DaysInMonth(y, m) ==
    IF m = 2 THEN (IF IsLeap(y) THEN 29 ELSE 28)
    ELSE IF m \in {4, 6, 9, 11} THEN 30 ELSE 31

\* the days before January 1st of year y >= 1
DaysBeforeYear(y) ==
    (y - 1) * 365 + ((y - 1) \div 4) - ((y - 1) \div 100) + ((y - 1) \div 400)

DaysBeforeMonth(y, m) == SumSeq([k \in 1..(m - 1) |-> DaysInMonth(y, k)])

\* the ordinal of a date, 0001-01-01 being day 1
YmdToOrd(y, m, d) == DaysBeforeYear(y) + DaysBeforeMonth(y, m) + d

\* 0 for a Monday .. 6 for a Sunday
Weekday(y, m, d) == (YmdToOrd(y, m, d) + 6) % 7

\* the arguments datetime() accepts: ValueError otherwise
ValidDate(y, m, d) ==
    /\ y \in 1..9999
    /\ m \in 1..12
    /\ d \in 1..DaysInMonth(y, m)

\* datetime(year, month, day)
Datetime(y, m, d) ==
    IF ValidDate(y, m, d)
    THEN [year |-> y, month |-> m, day |-> d, hour |-> 0]
    ELSE [raised |-> "ValueError"]

\* datetime order (year, month, day, hour)
DtLess(a, b) ==
    \/ a.year < b.year
    \/ a.year = b.year /\ a.month < b.month
    \/ a.year = b.year /\ a.month = b.month /\ a.day < b.day
    \/ a.year = b.year /\ a.month = b.month /\ a.day = b.day /\ a.hour < b.hour

\* ---- datetime.fromisoformat ----
\* The parser reads the UTF-8 encoding of the string, a NUL after its end.

IsSurrogate(c) == c \in 55296..57343

Utf8(c) ==
    IF c < 128 THEN <<c>>
    ELSE IF c < 2048 THEN <<192 + (c \div 64), 128 + (c % 64)>>
    ELSE IF c < 65536
    THEN <<224 + (c \div 4096), 128 + ((c \div 64) % 64), 128 + (c % 64)>>
    ELSE <<240 + (c \div 262144), 128 + ((c \div 4096) % 64),
           128 + ((c \div 64) % 64), 128 + (c % 64)>>

\* the byte at offset p (from 0)
At(b, p) == IF p + 1 \in DOMAIN b THEN b[p + 1] ELSE 0

IsDigit(c) == c \in 48..57

RECURSIVE Digits(_, _, _)
\* parse_digits: the number written by the n digits at offset p, -1 when one
\* of them is not a digit
Digits(b, p, n) ==
    IF n <= 0 THEN 0
    ELSE LET head == Digits(b, p, n - 1)
             c    == At(b, p + n - 1)
         IN  IF head < 0 \/ ~IsDigit(c) THEN -1 ELSE 10 * head + (c - 48)

RECURSIVE SkipDigits(_, _)
SkipDigits(b, p) == IF IsDigit(At(b, p)) THEN SkipDigits(b, p + 1) ELSE p

\* the offset of the character between date and time: 7, 8 or 10 by the date
\* form (YYYY-MM-DD, YYYYMMDD, YYYY-Www, YYYYWww, YYYY-Www-d, YYYYWwwd)
SeparatorLocation(b) ==
    LET len == Len(b)
        idx == SkipDigits(b, 7)
    IN  IF len = 7 THEN 7
        ELSE IF At(b, 4) = 45
        THEN IF At(b, 5) = 87
             THEN IF len < 8 THEN -1
                  ELSE IF len > 8 /\ At(b, 8) = 45
                  THEN IF len = 9 THEN -1
                       ELSE IF len > 10 /\ IsDigit(At(b, 10)) THEN 8
                       ELSE 10
                  ELSE 8
             ELSE 10
        ELSE IF At(b, 4) = 87
        THEN IF idx < 9 THEN idx
             ELSE IF idx % 2 = 0 THEN 7 ELSE 8
        ELSE 8

\* iso_to_ymd: the date of day iso_day of week iso_week of an ISO year
IsoToYmd(iso_year, iso_week, iso_day) ==
    LET Ymd(year, month, n) ==
            [year |-> year, month |-> month, day |-> n - DaysBeforeMonth(year, month)]
        \* day n of `year`
        DayOfYear(year, n) ==
            Ymd(year,
                CHOOSE m \in 1..12 :
                    DaysBeforeMonth(year, m) < n
                      /\ n <= DaysBeforeMonth(year, m) + DaysInMonth(year, m),
                n)
        InYear(ordinal, year) == DayOfYear(year, ordinal - DaysBeforeYear(year))
        OfOrdinal(ordinal) ==
            IF ordinal < 1 THEN [raised |-> "ValueError"]
            ELSE InYear(ordinal,
                        CHOOSE y \in (iso_year - 1)..(iso_year + 1) :
                            DaysBeforeYear(y) < ordinal
                              /\ ordinal <= DaysBeforeYear(y + 1))
        \* the year starts on first_weekday, which is day first_day
        Week1(first_weekday, first_day) ==
            IF \/ iso_week < 1
               \/ iso_week > 53
               \/ /\ iso_week = 53
                  /\ ~ \/ first_weekday = 3
                       \/ first_weekday = 2 /\ IsLeap(iso_year)
            THEN [raised |-> "ValueError"]
            ELSE IF iso_day < 1 \/ iso_day > 7 THEN [raised |-> "ValueError"]
            ELSE OfOrdinal((IF first_weekday > 3
                            THEN first_day - first_weekday + 7
                            ELSE first_day - first_weekday)
                             + (iso_week - 1) * 7 + iso_day - 1)
    IN  IF iso_year < 1 THEN [raised |-> "ValueError"]
        ELSE Week1(Weekday(iso_year, 1, 1), YmdToOrd(iso_year, 1, 1))

\* parse_isoformat_date over the first `len` bytes
ParseIsoformatDate(b, len) ==
    LET \* YYYY-Www[-d] or YYYYWww[d], the W at offset p
        WeekDate(year, p, uses_separator, iso_week, iso_day) ==
            IF iso_week < 0 THEN [raised |-> "ValueError"]
            ELSE IF p + 3 < len /\ uses_separator /\ At(b, p + 3) # 45
            THEN [raised |-> "ValueError"]
            ELSE IF iso_day < 0 THEN [raised |-> "ValueError"]
            ELSE IsoToYmd(year, iso_week, iso_day)
        \* YYYY-MM-DD or YYYYMMDD, the month at offset p
        MonthDate(year, p, uses_separator, month, day) ==
            IF month < 0 THEN [raised |-> "ValueError"]
            ELSE IF uses_separator /\ At(b, p + 2) # 45 THEN [raised |-> "ValueError"]
            ELSE IF day < 0 THEN [raised |-> "ValueError"]
            ELSE [year |-> year, month |-> month, day |-> day]
        Date(year, p, uses_separator) ==
            IF year < 0 THEN [raised |-> "ValueError"]
            ELSE IF At(b, p) = 87
            THEN WeekDate(year, p, uses_separator, Digits(b, p + 1, 2),
                          IF p + 3 < len
                          THEN Digits(b, IF uses_separator THEN p + 4 ELSE p + 3, 1)
                          ELSE 1)
            ELSE MonthDate(year, p, uses_separator, Digits(b, p, 2),
                           Digits(b, IF uses_separator THEN p + 3 ELSE p + 2, 2))
    IN  Date(Digits(b, 0, 4), IF At(b, 4) = 45 THEN 5 ELSE 4, At(b, 4) = 45)

\* the fraction of a second: up to six digits are read, further digits are
\* skipped; rv is 1 when a character other than NUL follows
ParseFraction(b, p, p_end, vals) ==
    LET len_remains == p_end - p
        to_parse    == IF len_remains >= 6 THEN 6 ELSE len_remains
        q           == SkipDigits(b, p + to_parse)
    IN  IF Digits(b, p, to_parse) < 0 THEN [rv |-> -3]
        ELSE [rv |-> IF At(b, q) # 0 THEN 1 ELSE 0, vals |-> vals]

RECURSIVE ParseFields(_, _, _, _, _, _)
\* parse_hh_mm_ss_ff: HH[:MM[:SS[.ffffff]]] or HH[MM[SS[.ffffff]]] between
\* p and p_end, field i next; rv is negative for a malformed time
ParseFields(b, p, p_end, i, has_separator, vals) ==
    LET v    == Digits(b, p, 2)
        c    == At(b, p + 2)
        sep  == IF i = 0 THEN c = 58 ELSE has_separator
        got  == Append(vals, v)
    IN  IF v < 0 THEN [rv |-> -3]
        ELSE IF p + 3 >= p_end THEN [rv |-> IF c # 0 THEN 1 ELSE 0, vals |-> got]
        ELSE IF sep /\ c = 58
        THEN IF i = 2 THEN ParseFraction(b, p + 3, p_end, got)
             ELSE ParseFields(b, p + 3, p_end, i + 1, sep, got)
        ELSE IF c = 46 \/ c = 44 THEN ParseFraction(b, p + 3, p_end, got)
        ELSE IF ~sep
        THEN IF i = 2 THEN ParseFraction(b, p + 2, p_end, got)
             ELSE ParseFields(b, p + 2, p_end, i + 1, sep, got)
        ELSE [rv |-> -4]

ParseHhMmSsFf(b, p, p_end) == ParseFields(b, p, p_end, 0, TRUE, <<>>)

FieldOr0(vals, i) == IF i \in DOMAIN vals THEN vals[i] ELSE 0

\* parse_isoformat_time over the bytes p .. p + len - 1: the time, then "Z" or
\* a signed offset, which must lie strictly between -24 and 24 hours
ParseIsoformatTime(b, p, len) ==
    LET Parsed(time) ==
            [hour |-> FieldOr0(time.vals, 1), minute |-> FieldOr0(time.vals, 2),
             second |-> FieldOr0(time.vals, 3)]
        Offset(time, tz) ==
            IF tz.rv # 0 THEN [raised |-> "ValueError"]
            ELSE IF FieldOr0(tz.vals, 1) * 3600 + FieldOr0(tz.vals, 2) * 60
                      + FieldOr0(tz.vals, 3) >= 86400
            THEN [raised |-> "ValueError"]
            ELSE time
        \* the time zone starts at tz_pos, or there is none (tz_pos = p + len)
        Zoned(time, tz_pos) ==
            IF len < 1 \/ time.rv < 0 THEN [raised |-> "ValueError"]
            ELSE IF tz_pos = p + len
            THEN IF time.rv = 1 THEN [raised |-> "ValueError"] ELSE time
            ELSE IF At(b, tz_pos) = 90
            THEN IF At(b, tz_pos + 1) # 0 THEN [raised |-> "ValueError"] ELSE time
            ELSE Offset(time, ParseHhMmSsFf(b, tz_pos + 1, p + len))
        Fields(result) == IF "raised" \in DOMAIN result THEN result ELSE Parsed(result)
        Time(tz_pos) == Fields(Zoned(ParseHhMmSsFf(b, p, tz_pos), tz_pos))
        First(marks) ==
            IF marks = {} THEN p + len ELSE CHOOSE k \in marks : \A j \in marks : k <= j
    IN  Time(First({k \in p..(p + len - 1) : At(b, k) \in {90, 43, 45}}))

\* the length in bytes of the UTF-8 character that starts with byte c
Utf8Width(c) ==
    IF c < 128 THEN 1
    ELSE IF c \div 16 = 14 THEN 3
    ELSE IF c \div 16 = 15 THEN 4
    ELSE 2

\* datetime.fromisoformat(s), to the hour: ValueError for a string that is
\* not an ISO 8601 date or date-time, or that names no calendar instant
FromIsoformat(s) ==
    LET Instant(date, time) ==
            IF "raised" \in DOMAIN date \/ "raised" \in DOMAIN time
            THEN [raised |-> "ValueError"]
            ELSE IF ~ValidDate(date.year, date.month, date.day)
                      \/ time.hour > 23 \/ time.minute > 59 \/ time.second > 59
            THEN [raised |-> "ValueError"]
            ELSE [year |-> date.year, month |-> date.month, day |-> date.day,
                  hour |-> time.hour]
        \* the date ends at offset sep, the time starts at offset start
        Parts(b, sep, start) ==
            Instant(ParseIsoformatDate(b, sep),
                    IF Len(b) > sep THEN ParseIsoformatTime(b, start, Len(b) - start)
                    ELSE [hour |-> 0, minute |-> 0, second |-> 0])
        Separated(b, sep) == Parts(b, sep, sep + Utf8Width(At(b, sep)))
        Encoded(b) == Separated(b, SeparatorLocation(b))
        \* a surrogate where the separator may stand is read as "T"
        Sanitized(clean) ==
            IF Len(s) < 7 \/ \E i \in DOMAIN clean : IsSurrogate(clean[i])
            THEN [raised |-> "ValueError"]
            ELSE Encoded(Flatten([i \in DOMAIN clean |-> Utf8(clean[i])]))
        Sanitize(at) ==
            Sanitized(IF at = {} THEN s
                      ELSE [s EXCEPT ![CHOOSE k \in at : \A j \in at : k <= j] = 84])
    IN  Sanitize({k \in {8, 9, 11} : k <= Len(s) /\ IsSurrogate(s[k])})

\* whether datetime.fromisoformat(s) returns
IsIsoDateTime(s) == "raised" \notin DOMAIN FromIsoformat(s)

\* The decimal digits of the Unicode database beyond ASCII, in runs <<first,
\* last>>: the digit c of a run has the value (c - first) % 10
DecimalRuns ==
    { <<1632,1641>>, <<1776,1785>>, <<1984,1993>>, <<2406,2415>>,
      <<2534,2543>>, <<2662,2671>>, <<2790,2799>>, <<2918,2927>>,
      <<3046,3055>>, <<3174,3183>>, <<3302,3311>>, <<3430,3439>>,
      <<3558,3567>>, <<3664,3673>>, <<3792,3801>>, <<3872,3881>>,
      <<4160,4169>>, <<4240,4249>>, <<6112,6121>>, <<6160,6169>>,
      <<6470,6479>>, <<6608,6617>>, <<6784,6793>>, <<6800,6809>>,
      <<6992,7001>>, <<7088,7097>>, <<7232,7241>>, <<7248,7257>>,
      <<42528,42537>>, <<43216,43225>>, <<43264,43273>>, <<43472,43481>>,
      <<43504,43513>>, <<43600,43609>>, <<44016,44025>>, <<65296,65305>>,
      <<66720,66729>>, <<68912,68921>>, <<69734,69743>>, <<69872,69881>>,
      <<69942,69951>>, <<70096,70105>>, <<70384,70393>>, <<70736,70745>>,
      <<70864,70873>>, <<71248,71257>>, <<71360,71369>>, <<71472,71481>>,
      <<71904,71913>>, <<72016,72025>>, <<72784,72793>>, <<73040,73049>>,
      <<73120,73129>>, <<92768,92777>>, <<92864,92873>>, <<93008,93017>>,
      <<120782,120831>>, <<123200,123209>>, <<123632,123641>>,
      <<125264,125273>>, <<130032,130041>> }

\* ---- float(str) and float + float ----
\* A natural number of any size is the sequence of its digits to the base
\* 32768, lowest first, without leading zeros (0 is <<>>).

RECURSIVE BigTimesPlus(_, _, _)
\* a * n + c, for 0 < n < 32768
BigTimesPlus(a, n, c) ==
    IF a = <<>>
    THEN IF c = 0 THEN <<>>
         ELSE <<c % 32768>> \o BigTimesPlus(<<>>, n, c \div 32768)
    ELSE LET t == a[1] * n + c
         IN  <<t % 32768>> \o BigTimesPlus(Tail(a), n, t \div 32768)

RECURSIVE BigTimesPower(_, _, _)
\* a * n^k
BigTimesPower(a, n, k) ==
    IF k = 0 THEN a ELSE BigTimesPower(BigTimesPlus(a, n, 0), n, k - 1)

RECURSIVE BigPlus(_, _, _)
BigPlus(a, b, carry) ==
    IF a = <<>> /\ b = <<>> THEN (IF carry = 0 THEN <<>> ELSE <<carry>>)
    ELSE LET t == (IF a = <<>> THEN 0 ELSE a[1]) + (IF b = <<>> THEN 0 ELSE b[1])
                    + carry
         IN  <<t % 32768>> \o BigPlus(IF a = <<>> THEN a ELSE Tail(a),
                                      IF b = <<>> THEN b ELSE Tail(b), t \div 32768)

RECURSIVE BigTrim(_)
BigTrim(a) ==
    IF a # <<>> /\ a[Len(a)] = 0 THEN BigTrim(SubSeq(a, 1, Len(a) - 1)) ELSE a

RECURSIVE BigMinusDigits(_, _, _)
BigMinusDigits(a, b, borrow) ==
    IF a = <<>> THEN <<>>
    ELSE LET t == a[1] - (IF b = <<>> THEN 0 ELSE b[1]) - borrow
         IN  <<IF t < 0 THEN t + 32768 ELSE t>>
               \o BigMinusDigits(Tail(a), IF b = <<>> THEN b ELSE Tail(b),
                                 IF t < 0 THEN 1 ELSE 0)

\* a - b, for a >= b
BigMinus(a, b) == BigTrim(BigMinusDigits(a, b, 0))

BigLess(a, b) ==
    \/ Len(a) < Len(b)
    \/ /\ Len(a) = Len(b)
       /\ \E i \in DOMAIN a :
             a[i] < b[i] /\ \A j \in (i + 1)..Len(a) : a[j] = b[j]

\* the number of binary digits of a
BigBitLen(a) ==
    IF a = <<>> THEN 0
    ELSE 15 * (Len(a) - 1)
           + (CHOOSE k \in 1..15 : 2 ^ (k - 1) <= a[Len(a)] /\ a[Len(a)] < 2 ^ k)

\* binary digit i of a, digit 0 being the lowest
BigBit(a, i) ==
    IF i < 0 \/ (i \div 15) + 1 > Len(a) THEN 0
    ELSE (a[(i \div 15) + 1] \div (2 ^ (i % 15))) % 2

\* a * 2^n
BigShiftLeft(a, n) ==
    IF a = <<>> THEN a
    ELSE [i \in 1..(n \div 15) |-> 0] \o BigTimesPlus(a, 2 ^ (n % 15), 0)

\* a \div 2^n: the digits from n \div 15 on, each with the high part of the
\* digit above it
BigShiftRight(a, n) ==
    LET Digit(j) == IF j \in DOMAIN a THEN a[j] ELSE 0
        Shifted(from, s) ==
            [j \in 1..(Len(a) - from) |->
                (Digit(j + from) \div (2 ^ s))
                  + (Digit(j + from + 1) % (2 ^ s)) * (2 ^ (15 - s))]
    IN  BigTrim(Shifted(n \div 15, n % 15))

\* some of the k lowest binary digits of a is 1
AnyLowBit(a, k) ==
    \E j \in DOMAIN a :
        /\ a[j] # 0
        /\ \/ 15 * j <= k
           \/ 15 * (j - 1) < k /\ a[j] % (2 ^ (k - 15 * (j - 1))) # 0

BigOfInt(n) == BigTimesPlus(<<>>, 1, n)

RECURSIVE BigToInt(_)
BigToInt(a) == IF a = <<>> THEN 0 ELSE a[1] + 32768 * BigToInt(Tail(a))

\* A Python float is [nan |-> TRUE], [inf |-> TRUE, neg |-> <sign>], or the
\* finite [neg |-> <sign>, m |-> <natural>, e |-> <int>] of value m * 2^e
\* (negated when neg), m odd, or m = 0 = e for a zero.
Nan == [nan |-> TRUE]

Inf(neg) == [inf |-> TRUE, neg |-> neg]

FloatZero(neg) == [neg |-> neg, m |-> <<>>, e |-> 0]

IsFinite(x) == "m" \in DOMAIN x

\* the number of zero binary digits at the low end of a, a not 0
TrailingZeros(a) ==
    LET Low(digit) == CHOOSE z \in 0..14 : digit % (2 ^ (z + 1)) = 2 ^ z
        First(j) == 15 * (j - 1) + Low(a[j])
    IN  First(CHOOSE j \in DOMAIN a :
                  a[j] # 0 /\ \A i \in 1..(j - 1) : a[i] = 0)

\* the double nearest to n * 2^e (plus a little, if `sticky`): 53 binary
\* digits, none below 2^-1074, ties to the even neighbour, inf from 2^1024 on
RoundToDouble(neg, n, e, sticky) ==
    LET Odd(rounded, exp, zeros) ==
            [neg |-> neg, m |-> BigShiftRight(rounded, zeros), e |-> exp + zeros]
        Ranged(rounded, exp) ==
            IF rounded = <<>> THEN FloatZero(neg)
            ELSE IF BigBitLen(rounded) + exp > 1024 THEN Inf(neg)
            ELSE Odd(rounded, exp, TrailingZeros(rounded))
        \* round half to even on the `drop` low digits
        Up(drop) ==
            /\ BigBit(n, drop - 1) = 1
            /\ \/ sticky
               \/ BigBit(n, drop) = 1
               \/ AnyLowBit(n, drop - 1)
        Rounded(kept, drop) ==
            Ranged(IF Up(drop) THEN BigPlus(kept, <<1>>, 0) ELSE kept, e + drop)
        Dropping(drop) == Rounded(BigShiftRight(n, drop), drop)
        Keeping(len, keep) ==
            IF keep < 0 THEN FloatZero(neg)
            ELSE Dropping(IF len - keep > 0 THEN len - keep ELSE 0)
        Sized(len) ==
            Keeping(len, IF e + len + 1074 < 53 THEN e + len + 1074 ELSE 53)
    IN  IF n = <<>> THEN FloatZero(neg) ELSE Sized(BigBitLen(n))

\* one step of the long division of num * 2^shift by den: binary digit st.i of
\* the dividend comes down to the remainder
DivideStep(num, shift, den, st) ==
    LET Digit(r, ge) ==
            [i |-> st.i - 1,
             rem |-> IF ge THEN BigMinus(r, den) ELSE r,
             quot |-> BigTimesPlus(st.quot, 2, IF ge THEN 1 ELSE 0)]
        Compare(r) == Digit(r, ~BigLess(r, den))
    IN  Compare(BigTimesPlus(st.rem, 2, BigBit(num, st.i - shift)))

RECURSIVE DivideSteps(_, _, _, _, _)
\* up to k steps of the division
DivideSteps(num, shift, den, st, k) ==
    IF k = 0 \/ st.i < 0 THEN st
    ELSE DivideSteps(num, shift, den, DivideStep(num, shift, den, st), k - 1)

RECURSIVE DivideFrom(_, _, _, _)
\* the steps that are left, sixteen at a time
DivideFrom(num, shift, den, st) ==
    IF st.i < 0 THEN st
    ELSE DivideFrom(num, shift, den, DivideSteps(num, shift, den, st, 16))

RECURSIVE ShortDivision(_, _, _)
\* the division of a by d < 32768, digit st.j of a next
ShortDivision(a, d, st) ==
    IF st.j = 0 THEN st
    ELSE ShortDivision(a, d,
            [j |-> st.j - 1,
             rem |-> (st.rem * 32768 + a[st.j]) % d,
             quot |-> <<(st.rem * 32768 + a[st.j]) \div d>> \o st.quot])

\* the quotient and remainder of num * 2^shift by den: digit by digit when
\* den is a single digit, else binary digit by binary digit
BigDivide(num, shift, den) ==
    LET Short(a, st) == [quot |-> BigTrim(st.quot), rem |-> BigOfInt(st.rem)]
        ByDigit(a) ==
            Short(a, ShortDivision(a, den[1], [j |-> Len(a), rem |-> 0, quot |-> <<>>]))
        Long(st) == [quot |-> st.quot, rem |-> st.rem]
    IN  IF Len(den) = 1 THEN ByDigit(BigShiftLeft(num, shift))
        ELSE Long(DivideFrom(num, shift, den,
                             [i |-> BigBitLen(num) + shift - 1,
                              rem |-> <<>>, quot |-> <<>>]))

\* the double nearest to d * 10^k, d having nd decimal digits
DecimalToDouble(neg, d, nd, k) ==
    LET Nearest(r) == RoundToDouble(neg, r.n, r.e, r.sticky)
        Quotient(q, shift) ==
            [n |-> q.quot, e |-> k - shift, sticky |-> q.rem # <<>>]
        Divided(den, shift) ==
            Quotient(BigDivide(d, shift, den), shift)
        Shifted(den, least) == Divided(den, IF least < 0 THEN 0 ELSE least)
        Scaled(den, want) ==
            Shifted(den, IF want < 1076 + k THEN want ELSE 1076 + k)
        Over(den) == Scaled(den, 56 + BigBitLen(den) - BigBitLen(d))
    IN  IF d = <<>> THEN FloatZero(neg)
        ELSE IF nd + k >= 310 THEN Inf(neg)
        ELSE IF nd + k <= -324 THEN FloatZero(neg)
        ELSE Nearest(IF k >= 0
                     THEN [n |-> BigTimesPower(d, 5, k), e |-> k, sticky |-> FALSE]
                     ELSE Over(BigTimesPower(<<1>>, 5, -k)))

\* float(n) of an int below 2^31, which a double holds exactly: the odd part
\* of n and the power of two it is multiplied by
FloatOfInt(n) ==
    IF n = 0 THEN FloatZero(FALSE)
    ELSE LET z == CHOOSE z \in 0..30 : Abs(n) % (2 ^ (z + 1)) = 2 ^ z
         IN  [neg |-> n < 0, m |-> BigOfInt(Abs(n) \div (2 ^ z)), e |-> z]

\* The model writes a float that is a whole number below 2^30 as that integer
\* (60.0 is 60, -0.0 is 0), and any other float as the record above.
IsWhole(x) == IsFinite(x) /\ x.e >= 0 /\ BigBitLen(x.m) + x.e <= 30

WholeValue(x) == (IF x.neg THEN -1 ELSE 1) * BigToInt(x.m) * (2 ^ x.e)

Number(x) == IF IsWhole(x) THEN WholeValue(x) ELSE x

\* x + y: the double nearest to the sum (the sum itself for whole numbers
\* below 2^30)
FloatPlus(x, y) ==
    LET Nearest(sum, e) ==
            IF sum.n = <<>> THEN FloatZero(FALSE)
            ELSE RoundToDouble(sum.neg, sum.n, e, FALSE)
        Sum(a, b) ==
            IF x.neg = y.neg THEN [neg |-> x.neg, n |-> BigPlus(a, b, 0)]
            ELSE IF BigLess(a, b) THEN [neg |-> y.neg, n |-> BigMinus(b, a)]
            ELSE [neg |-> x.neg, n |-> BigMinus(a, b)]
        Aligned(e) ==
            Nearest(Sum(BigShiftLeft(x.m, x.e - e), BigShiftLeft(y.m, y.e - e)), e)
    IN  IF "nan" \in DOMAIN x \/ "nan" \in DOMAIN y THEN Nan
        ELSE IF "inf" \in DOMAIN x
        THEN IF "inf" \in DOMAIN y /\ x.neg # y.neg THEN Nan ELSE x
        ELSE IF "inf" \in DOMAIN y THEN y
        ELSE IF x.m = <<>> /\ y.m = <<>> THEN FloatZero(x.neg /\ y.neg)
        ELSE IF x.m = <<>> THEN y
        ELSE IF y.m = <<>> THEN x
        ELSE IF IsWhole(x) /\ IsWhole(y)
        THEN FloatOfInt(WholeValue(x) + WholeValue(y))
        ELSE Aligned(IF x.e < y.e THEN x.e ELSE y.e)

\* float(Fraction(num, den)) for ints, 0 < den: the double nearest to the
\* quotient (the quotient itself where mean() keeps it an int)
FloatOfFrac(num, den) ==
    LET Nearest(q, shift) ==
            RoundToDouble(num < 0, q.quot, -shift, q.rem # <<>>)
        Divided(n, d, shift) ==
            Nearest(BigDivide(n, shift, d), shift)
        Scaled(n, d) == Divided(n, d, 56 + BigBitLen(d) - BigBitLen(n))
    IN  IF num % den = 0 THEN FloatOfInt(num \div den)
        ELSE Scaled(BigOfInt(Abs(num)), BigOfInt(den))

RECURSIVE IntIsqrt(_, _, _)
\* math.isqrt(p) for p < 2^30, one binary digit of the root at a time: r is
\* the root so far, bit the digit to try
IntIsqrt(p, r, bit) ==
    IF bit = 0 THEN r
    ELSE IntIsqrt(p, IF (r + bit) * (r + bit) <= p THEN r + bit ELSE r,
                  bit \div 2)

RECURSIVE SqrtDigit(_, _, _)
\* the next digit of a root to the base 32768: the largest d <= guess with
\* (twoRoot * 32768 + d) * d <= rem, and what is left of rem
SqrtDigit(rem, twoRoot, guess) ==
    LET Tried(prod) ==
            IF BigLess(rem, prod) THEN SqrtDigit(rem, twoRoot, guess - 1)
            ELSE [digit |-> guess, rem |-> BigMinus(rem, prod)]
    IN  IF guess = 0 THEN [digit |-> 0, rem |-> rem]
        ELSE Tried(BigTimesPlus(<<guess>> \o twoRoot, guess, 0))

\* a digit that is not below the next digit of the root, and at most 4 above
\* it: rem \div (twoRoot * 32768), from the three highest digits of rem and
\* the two highest of twoRoot, for a twoRoot of 2^15 or more
SqrtGuess(rem, twoRoot) ==
    LET Digit(j) == IF j \in DOMAIN rem THEN rem[j] ELSE 0
        Quotient(k, den) ==
            IF Digit(k + 2) > 1 THEN 32767
            ELSE (Digit(k + 2) * 536870912 + Digit(k + 1) * 16384
                    + (Digit(k) \div 2) + 1) \div den
        Capped(q) == IF q > 32767 THEN 32767 ELSE q
        Highest(k) ==
            Capped(Quotient(k, twoRoot[k] * 16384 + (twoRoot[k - 1] \div 2)))
    IN  Highest(Len(twoRoot))

\* one step of the square root of x: the digits 2j and 2j - 1 of x come down
\* to the remainder, and the root gets its next digit
SqrtStep(x, st) ==
    LET Next(d) ==
            [j |-> st.j - 1, rem |-> d.rem, root |-> <<d.digit>> \o st.root,
             twoRoot |-> BigTimesPlus(<<d.digit>> \o st.root, 2, 0)]
        Down(rem) == Next(SqrtDigit(rem, st.twoRoot, SqrtGuess(rem, st.twoRoot)))
    IN  Down(BigTrim(<<x[2 * st.j - 1], x[2 * st.j]>> \o st.rem))

RECURSIVE SqrtFrom(_, _)
SqrtFrom(x, st) ==
    IF st.j = 0 THEN st ELSE SqrtFrom(x, SqrtStep(x, st))

\* math.isqrt(x) as `root`, and whether x is its square as `exact`.  The root
\* is taken of x * 4^s, of an even number of digits and with a highest pair
\* of digits of 2^28 or more, and is halved s times: its first digit comes
\* from the highest pair, the others a digit at a time
BigIsqrt(x) ==
    LET Halved(st, s) ==
            [root |-> BigShiftRight(st.root, s), exact |-> st.rem = <<>>]
        First(y, p, r, s) ==
            Halved(SqrtFrom(y, [j |-> (Len(y) \div 2) - 1,
                                rem |-> BigOfInt(p - r * r),
                                root |-> <<r>>, twoRoot |-> BigOfInt(2 * r)]),
                   s)
        Pair(y, p, s) == First(y, p, IntIsqrt(p, 0, 16384), s)
        Scaled(y, s) == Pair(y, y[Len(y)] * 32768 + y[Len(y) - 1], s)
        Even(len) == ((30 - (len % 30)) % 30) \div 2
        Odd(len) == (29 - (len % 30)) \div 2
        Sized(len, s) == Scaled(BigShiftLeft(x, 2 * s), s)
        Normal(len) == Sized(len, IF len % 2 = 0 THEN Even(len) ELSE Odd(len))
    IN  IF x = <<>> THEN [root |-> <<>>, exact |-> TRUE]
        ELSE Normal(BigBitLen(x))

\* statistics._float_sqrt_of_frac(n, m), 0 <= n, 0 < m, both below 2^31: the
\* double nearest to the square root of n / m.  With
\* q = (n.bit_length() - m.bit_length() - (2 * 53 + 3)) // 2, which is negative
\* here, a = isqrt((n << -2 * q) // m) has 55 binary digits or more; its last
\* digit is set when a * a * m is not n << -2 * q, and a / 2^-q is rounded.
\* (The outcome is the same whether or not n / m is in lowest terms.)
FloatSqrtOfFrac(n, m) ==
    LET Nearest(a, exact, q) ==
            RoundToDouble(FALSE, a.root, q, ~a.exact \/ ~exact)
        Root(d, q) ==
            Nearest(BigIsqrt(d.quot), d.rem = <<>>, q)
        Shifted(num, den, q) ==
            Root(BigDivide(num, -2 * q, den), q)
        Sized(num, den) ==
            Shifted(num, den,
                    (BigBitLen(num) - BigBitLen(den) - (2 * 53 + 3)) \div 2)
    IN  IF n = 0 THEN FloatZero(FALSE)
        ELSE Sized(BigOfInt(n), BigOfInt(m))

\* n * x for an int 0 < n < 32768 and a finite float x
FloatTimesInt(n, x) ==
    IF x.m = <<>> THEN x
    ELSE RoundToDouble(x.neg, BigTimesPlus(x.m, n, 0), x.e, FALSE)

\* x < y for finite floats
FloatLess(x, y) ==
    LET Magnitudes(a, b) ==
            IF x.neg THEN (IF y.neg THEN BigLess(b, a) ELSE a # <<>> \/ b # <<>>)
            ELSE (~y.neg /\ BigLess(a, b))
        Aligned(e) ==
            Magnitudes(BigShiftLeft(x.m, x.e - e), BigShiftLeft(y.m, y.e - e))
    IN  Aligned(IF x.e < y.e THEN x.e ELSE y.e)

\* round(x, 2) for a finite float x below 2^31 / 100 in size: the sign of x
\* and the number of hundredths nearest to |x| in exact arithmetic, the even
\* one when x lies half way (round(1.125, 2) is 1.12, round(-0.001, 2) is -0.0)
RoundHundredths(x) ==
    LET Nearest(k, guard, rest) ==
            IF guard = 1 /\ (rest \/ BigBit(k, 0) = 1)
            THEN BigPlus(k, <<1>>, 0) ELSE k
        Split(n, drop) ==
            IF drop <= 0 THEN BigShiftLeft(n, -drop)
            ELSE Nearest(BigShiftRight(n, drop), BigBit(n, drop - 1),
                         AnyLowBit(n, drop - 1))
    IN  [neg |-> x.neg,
         hundredths |-> BigToInt(Split(BigTimesPlus(x.m, 100, 0), -x.e))]

\* repr() of the float that is r.hundredths / 100 with the sign r.neg: the
\* whole part, the point, and one decimal or two
ReprHundredths(r) ==
    (IF r.neg THEN <<45>> ELSE <<>>)
        \o DecStr(r.hundredths \div 100) \o <<46>>
        \o (IF r.hundredths % 10 = 0 THEN DecStr((r.hundredths % 100) \div 10)
            ELSE ZeroPad(r.hundredths % 100, 2))

\* The characters of a str as float() reads them: a character below 127 as
\* it is, other white space as a space, other decimal digits as 0..9, and
\* anything else as "?"
AsAscii(c) ==
    IF c < 127 THEN c
    ELSE IF IsSpace(c) THEN 32
    ELSE LET run == {r \in DecimalRuns : r[1] <= c /\ c <= r[2]}
         IN  IF run = {} THEN 63
             ELSE 48 + ((c - (CHOOSE r \in run : TRUE)[1]) % 10)

\* white space of the C locale
IsCSpace(c) == c = 32 \/ c \in 9..13

RECURSIVE StripC(_)
StripC(s) ==
    IF s # <<>> /\ IsCSpace(s[1]) THEN StripC(Tail(s))
    ELSE IF s # <<>> /\ IsCSpace(s[Len(s)]) THEN StripC(SubSeq(s, 1, Len(s) - 1))
    ELSE s

\* an underscore may stand between two digits only
UnderscoresOk(s) ==
    \A i \in DOMAIN s :
        s[i] = 95 => /\ i > 1 /\ IsDigit(s[i - 1])
                     /\ i < Len(s) /\ IsDigit(s[i + 1])

\* the number of digits of s from index i on
DigitRun(s, i) ==
    CHOOSE n \in 0..(Len(s) + 1 - i) :
        /\ \A j \in i..(i + n - 1) : IsDigit(s[j])
        /\ i + n > Len(s) \/ ~IsDigit(s[i + n])

LowerAscii(s) == [i \in DOMAIN s |-> IF s[i] \in 65..90 THEN s[i] + 32 ELSE s[i]]

RECURSIVE BigOfDigits(_, _)
BigOfDigits(digits, acc) ==
    IF digits = <<>> THEN acc
    ELSE BigOfDigits(Tail(digits), BigTimesPlus(acc, 10, digits[1] - 48))

RECURSIVE Exponent(_, _)
\* int() of the exponent digits, held at a million
Exponent(digits, acc) ==
    IF digits = <<>> THEN acc
    ELSE Exponent(Tail(digits),
                  IF 10 * acc + (digits[1] - 48) > 1000000 THEN 1000000
                  ELSE 10 * acc + (digits[1] - 48))

RECURSIVE StripZeros(_)
StripZeros(digits) ==
    IF digits # <<>> /\ digits[1] = 48 THEN StripZeros(Tail(digits)) ELSE digits

\* float(s) of a str: [sign] digits [. digits] [e [sign] digits] with a digit
\* before the exponent, or [sign] inf | infinity | nan in any letter case,
\* between white space; ValueError for any other string
FloatOfStr(s) ==
    LET Decimal(neg, digits, k) ==
            DecimalToDouble(neg, BigOfDigits(digits, <<>>), Len(digits), k)
        \* `whole` digits, `frac` digits after a point, and the exponent exp
        Written(neg, body, whole, frac, exp) ==
            Decimal(neg,
                    StripZeros(SubSeq(body, 1, whole)
                                 \o SubSeq(body, whole + 2, whole + 1 + frac)),
                    exp - frac)
        \* the exponent has exp_len digits from index exp_at on
        Exponential(neg, body, whole, frac, mant, has_exp, exp_at, exp_len) ==
            IF \/ whole + frac = 0
               \/ has_exp /\ exp_len = 0
               \/ (IF has_exp THEN exp_at + exp_len - 1 ELSE mant) # Len(body)
            THEN [raised |-> "ValueError"]
            ELSE Written(neg, body, whole, frac,
                         (IF mant + 1 < Len(body) /\ body[mant + 2] = 45 THEN -1 ELSE 1)
                           * Exponent(SubSeq(body, exp_at, exp_at + exp_len - 1), 0))
        Marked(neg, body, whole, frac, mant, has_exp, exp_at) ==
            Exponential(neg, body, whole, frac, mant, has_exp, exp_at,
                        IF has_exp THEN DigitRun(body, exp_at) ELSE 0)
        \* the mantissa takes the first `mant` characters
        Mantissa(neg, body, whole, frac, mant) ==
            Marked(neg, body, whole, frac, mant,
                   mant < Len(body) /\ body[mant + 1] \in {69, 101},
                   IF mant + 1 < Len(body) /\ body[mant + 2] \in {43, 45}
                   THEN mant + 3 ELSE mant + 2)
        Fraction(neg, body, whole, point, frac) ==
            Mantissa(neg, body, whole, frac, whole + frac + (IF point THEN 1 ELSE 0))
        Pointed(neg, body, whole, point) ==
            Fraction(neg, body, whole, point,
                     IF point THEN DigitRun(body, whole + 2) ELSE 0)
        Unsigned(neg, body, word) ==
            IF word \in {<<105,110,102>>, <<105,110,102,105,110,105,116,121>>}
            THEN Inf(neg)
            ELSE IF word = <<110,97,110>> THEN Nan
            ELSE Pointed(neg, body, DigitRun(body, 1),
                         DigitRun(body, 1) < Len(body)
                           /\ body[DigitRun(body, 1) + 1] = 46)
        Signed(neg, body) == Unsigned(neg, body, LowerAscii(body))
        Plain(plain) ==
            Signed(plain # <<>> /\ plain[1] = 45,
                   IF plain # <<>> /\ plain[1] \in {43, 45} THEN Tail(plain) ELSE plain)
        Spaced(spaced) ==
            IF ~UnderscoresOk(spaced) THEN [raised |-> "ValueError"]
            ELSE Plain(SelectSeq(spaced, LAMBDA c : c # 95))
    IN  Spaced(StripC([i \in DOMAIN s |-> AsAscii(s[i])]))

---------------------------------------------------------------------------
(* Receipt documents                                                       *)

Item(n, c, a) == [name |-> n, category |-> c, amount |-> a]

Merchant == <<68,45,77,97,114,116>>   \* "D-Mart"

\* the document of receipt number i of the collection
Receipt(i, ts, summary, items) ==
    [receipt_id |-> i, uid |-> Uid, timestamp |-> ts, merchant |-> Merchant,
     category_summary |-> summary, items |-> items]

\* sum(item["amount"] for item in receipt.get("items", []))
ItemTotal(receipt) ==
    SumSeq([i \in DOMAIN receipt.items |-> receipt.items[i].amount])

Uncategorized == <<117,110,99,97,116,101,103,111,114,105,122,101,100>>  \* "uncategorized"

\* item.get("category", "uncategorized")
CategoryOf(item) ==
    IF "category" \in DOMAIN item THEN item.category ELSE Uncategorized

\* float(item.get("amount", 0)): an amount that is a str is kept under the
\* field amount_str, an int under amount; ValueError for a str that float()
\* does not read
AmountOf(item) ==
    IF "amount_str" \in DOMAIN item THEN FloatOfStr(item.amount_str)
    ELSE IF "amount" \in DOMAIN item THEN FloatOfInt(item.amount)
    ELSE FloatOfInt(0)

AmountRaises(item) == "raised" \in DOMAIN AmountOf(item)

\* wallet_creator.store_receipt_data: category_summary computed from the items
RECURSIVE SummaryFrom(_, _)
\* category_summary[category] = category_summary.get(category, 0) + amount
SummaryFrom(items, summary) ==
    IF items = <<>> THEN summary
    ELSE SummaryFrom(Tail(items),
                     DictSet(summary, CategoryOf(items[1]),
                             FloatPlus(DictGet(summary, CategoryOf(items[1]),
                                               FloatOfInt(0)),
                                       AmountOf(items[1]))))

CategorySummaryOf(items) ==
    LET Numbers(summary) ==
            [i \in DOMAIN summary |-> <<summary[i][1], Number(summary[i][2])>>]
    IN  Numbers(SummaryFrom(items, <<>>))

\* the collection holding the documents built from `bodies`, in the order
\* stream() yields them (by document id), numbered in that order
Collection(bodies) ==
    [i \in DOMAIN bodies |->
        Receipt(i, bodies[i].timestamp, bodies[i].category_summary, bodies[i].items)]

Body(ts, summary, items) ==
    [timestamp |-> ts, category_summary |-> summary, items |-> items]

\* `txs` is a collection of at most n documents, each built from one of `bodies`
IsHistory(txs, bodies, n) ==
    \E k \in 0..n : \E b \in [1..k -> bodies] : txs = Collection(b)

\* labels
Milk       == <<77,105,108,107>>                       \* "Milk"
Rice       == <<82,105,99,101>>                        \* "Rice"
Soap       == <<83,111,97,112>>                        \* "Soap"
Groceries  == <<103,114,111,99,101,114,105,101,115>>   \* "groceries"
Household  == <<104,111,117,115,101,104,111,108,100>>  \* "household"
Electronics  == <<101,108,101,99,116,114,111,110,105,99,115>>        \* "electronics"
PersonalCare == <<112,101,114,115,111,110,97,108,32,99,97,114,101>>  \* "personal care"
Dining       == <<100,105,110,105,110,103>>                          \* "dining"
Fuel         == <<102,117,101,108>>                                  \* "fuel"
Food         == <<102,111,111,100>>                                  \* "food"
Rent         == <<114,101,110,116>>                                  \* "rent"
\* labels that differ from the above in letter case or surrounding whitespace
MilkSpaced      == <<32,109,105,108,107>>                         \* " milk"
GroceriesCapped == <<71,114,111,99,101,114,105,101,115,32>>       \* "Groceries "
Dairy           == <<68,97,105,114,121>>                          \* "Dairy"

---------------------------------------------------------------------------
(* anomolytool.detect_anomalies_for_user                                   *)

\* statistics.mean(xs): StatisticsError on no data, else the exact mean
Mean(xs) == [raised |-> Len(xs) < 1, num |-> SumSeq(xs), den |-> Len(xs)]

\* statistics.stdev(xs): StatisticsError below two data points; else the square
\* root of the sample variance ssd / (n - 1), ssd = (n*sxx - sx*sx) / n.  The
\* record holds the exact variance num / den; StdevDen is the divisor n - 1.
\* (a population deviation instead: divisor n)
StdevDen_Population(n) == n

\* (the deviation of the mean instead: divisor n * (n - 1))
StdevDen_OfMean(n) == n * (n - 1)

StdevDen(n) == n - 1

Stdev(xs) ==
    LET n   == Len(xs)
        sx  == SumSeq(xs)
        sxx == SumSeq([i \in DOMAIN xs |-> xs[i] * xs[i]])
    IN  [raised |-> n < 2, num |-> n * sxx - sx * sx, den |-> n * StdevDen(n)]

SigmaFactor == 2      \* mean_total + 2 * std_total

ItemFactorNum == 3    \* 1.5 * avg, as 3 / 2
ItemFactorDen == 2

\* mean_total + 2 * std_total, a float: mean() gives the int or the float
\* nearest to the exact mean, stdev() the float nearest to the square root of
\* the exact variance, and the sum is rounded once more
Threshold(mean, std) ==
    FloatPlus(FloatOfFrac(mean.num, mean.den),
              FloatTimesInt(SigmaFactor, FloatSqrtOfFrac(std.num, std.den)))

\* receipt["total_spend"] > mean_total + 2 * std_total
ExceedsThreshold(total, threshold) == FloatLess(threshold, FloatOfInt(total))

\* round(mean_total + 2 * std_total, 2)
RoundedThreshold(threshold) == RoundHundredths(threshold)

HighTotalSpend ==    \* "High total spend (>"
    <<72,105,103,104,32,116,111,116,97,108,32,115,112,101,110,100,32,40,62>>

\* f"High total spend (>{round(mean_total + 2 * std_total, 2)})"
AnomalyReason(threshold) ==
    HighTotalSpend \o ReprHundredths(RoundedThreshold(threshold)) \o <<41>>

\* (an item flagged only above twice the category average)
ItemIsHigh_Twice(amount, avg) ==
    /\ avg.num > 0
    /\ amount * avg.den > 2 * avg.num

\* avg > 0 and item["amount"] > 1.5 * avg.  For ints below 2^31 the float
\* product compares as the exact one: 1.5 * avg is an integer only for an
\* average in whole thirds, whose float product rounds to that integer.
ItemIsHigh(amount, avg) ==
    /\ avg.num > 0
    /\ ItemFactorDen * amount * avg.den > ItemFactorNum * avg.num

\* (a guard that lets a single receipt through)
NotEnoughData_OnlyEmpty(total_spends) == Len(total_spends) < 1

\* len(total_spends) < 2
NotEnoughData(total_spends) == Len(total_spends) < 2

RECURSIVE CategorySpend(_, _)
\* category_spend[item["category"]].append(item["amount"]), over all receipts
CategorySpend(items, spend) ==
    IF items = <<>> THEN spend
    ELSE CategorySpend(Tail(items),
                       DictSet(spend, items[1].category,
                               Append(DictGet(spend, items[1].category, <<>>),
                                      items[1].amount)))

\* {cat: mean(amts) for cat, amts in category_spend.items()}
CategoryAvg(spend) == [i \in DOMAIN spend |-> <<spend[i][1], Mean(spend[i][2])>>]

\* the category_anomalies of one flagged receipt
CategoryAnomalies(receipt, category_avg) ==
    LET high(item) == ItemIsHigh(item.amount,
                                 DictGet(category_avg, item.category, Mean(<<0>>)))
        entry(item) ==
            LET avg == DictGet(category_avg, item.category, Mean(<<0>>))
            IN  [name |-> item.name, category |-> item.category,
                 amount |-> item.amount,
                 avg_category_amount |-> Round2(avg.num, avg.den)]
        flagged == SelectSeq(receipt.items, high)
    IN  [i \in DOMAIN flagged |-> entry(flagged[i])]

\* one element of `anomalies`; receipt["timestamp"].isoformat() raises
\* AttributeError on a str
AnomalyEntry(receipt, total, threshold, category_avg) ==
    IF ~IsDatetime(receipt.timestamp) THEN [raised |-> "AttributeError"]
    ELSE [receipt_id |-> receipt.receipt_id,
          timestamp |-> Isoformat(receipt.timestamp),
          merchant |-> receipt.merchant,
          total_spend |-> total,
          anomaly_reason |-> AnomalyReason(threshold),
          category_anomalies |-> CategoryAnomalies(receipt, category_avg)]

NotEnoughDataMessage == [message |-> "Not enough data for anomaly detection."]

detect_anomalies_for_user(uid, txs) ==
    LET total_spends == [i \in DOMAIN txs |-> ItemTotal(txs[i])]
        Report(entries) ==
            IF \E i \in DOMAIN entries : "raised" \in DOMAIN entries[i]
            THEN [raised |-> "AttributeError"]
            ELSE [uid |-> uid, anomalies |-> entries]
        Entries(flagged, threshold, category_avg) ==
            Report([i \in DOMAIN flagged |->
                      AnomalyEntry(flagged[i], ItemTotal(flagged[i]),
                                   threshold, category_avg)])
        Compared(threshold) ==
            LET isAnomaly(r) == ExceedsThreshold(ItemTotal(r), threshold)
            IN  Entries(SelectSeq(txs, isAnomaly), threshold,
                        CategoryAvg(CategorySpend(
                            Flatten([i \in DOMAIN txs |-> txs[i].items]), <<>>)))
        Statistics(mean_total, std_total) ==
            IF mean_total.raised \/ std_total.raised
            THEN [raised |-> "StatisticsError"]
            ELSE Compared(Threshold(mean_total, std_total))
    IN  IF NotEnoughData(total_spends) THEN NotEnoughDataMessage
        ELSE Statistics(Mean(total_spends), Stdev(total_spends))

\* (the derived total written into the stored document)
StoredAfterTotals_WriteBack(txs) ==
    [i \in DOMAIN txs |->
        [f \in DOMAIN txs[i] \cup {"total_spend"} |->
            IF f = "total_spend" THEN ItemTotal(txs[i]) ELSE txs[i][f]]]

\* The collection after the loop over the stream: receipt = doc.to_dict() is a
\* dictionary built from the snapshot, so receipt["total_spend"] = total changes
\* that dictionary and not the document; the tool never calls set() or update().
StoredAfterTotals(txs) == txs

DetectAnomalies ==
    /\ spending_anomalies' = detect_anomalies_for_user(Uid, transactions)
    /\ transactions' = StoredAfterTotals(transactions)
    /\ UNCHANGED <<analytics, dashboard_metrics, trend_insights,
                   recurring_expenses, time_slot_breakdown, ingestion, pipeline,
                   tool_runs>>

\* Receipt histories for the anomaly detector: up to MaxHistory receipts, each
\* one of AnomalyBodies.
MaxHistory == 6

AnomalyTimestamp == [year |-> 2025, month |-> 7, day |-> 24, hour |-> 10]

AnomalyBodies ==
    { Body(AnomalyTimestamp, <<>>, <<>>),
      \* a category label in another letter case and with a trailing blank
      Body(AnomalyTimestamp, <<<<GroceriesCapped, 1>>>>,
           <<Item(Milk, GroceriesCapped, 1)>>),
      \* an item of amount 0
      Body(AnomalyTimestamp, <<<<Groceries, 2>>, <<Household, 0>>>>,
           <<Item(Milk, Groceries, 2), Item(Soap, Household, 0)>>),
      \* a category_summary that disagrees with the items
      Body(AnomalyTimestamp, <<<<Groceries, 1>>>>,
           <<Item(Rice, Groceries, 8), Item(Milk, GroceriesCapped, 1)>>) }

NoResults ==
    /\ dashboard_metrics = NotRun
    /\ trend_insights = NotRun
    /\ recurring_expenses = NotRun
    /\ spending_anomalies = NotRun
    /\ time_slot_breakdown = NotRun
    /\ sub_agent = 1
    /\ llm_flow = [at |-> "request", calls |-> 0]
    /\ session_state = <<>>
    /\ store_result = NotRun
    /\ store_call = [at |-> "idle"]
    /\ tool_runs = [tool \in ToolNames |-> [at |-> "idle"]]

\* nothing ingested yet
NothingStored ==
    /\ receipts = <<>>
    /\ user_receipts = <<>>

InitAnomalies ==
    /\ IsHistory(transactions, AnomalyBodies, MaxHistory)
    /\ analytics = <<>>
    /\ NoResults
    /\ NothingStored

SpecAnomalies == InitAnomalies /\ [][DetectAnomalies]_vars

---------------------------------------------------------------------------
(* RecurringExpenseTool.detect_recurring_expenses                          *)

RECURSIVE StrLess(_, _)
\* a < b on str: lexicographic by code point
StrLess(a, b) ==
    IF b = <<>> THEN FALSE
    ELSE IF a = <<>> THEN TRUE
    ELSE IF a[1] # b[1] THEN a[1] < b[1]
    ELSE StrLess(Tail(a), Tail(b))

RECURSIVE Sorted_Descending(_)
\* (the months listed latest first)
Sorted_Descending(S) ==
    IF S = {} THEN <<>>
    ELSE LET least == CHOOSE x \in S : \A y \in S \ {x} : StrLess(x, y)
         IN  Sorted_Descending(S \ {least}) \o <<least>>

RECURSIVE Sorted(_)
\* sorted(S) for a set of str
Sorted(S) ==
    IF S = {} THEN <<>>
    ELSE LET least == CHOOSE x \in S : \A y \in S \ {x} : StrLess(x, y)
         IN  <<least>> \o Sorted(S \ {least})

\* (a key that is lower-cased but keeps its surrounding whitespace)
ItemKey_LowerOnly(item) == <<Lower(item.name), Lower(item.category)>>

\* (item["name"].lower().strip(), item["category"].lower().strip())
ItemKey(item) == <<Strip(Lower(item.name)), Strip(Lower(item.category))>>

\* the defaultdict's value for a key not seen before
NewTracker == [months |-> {}, total_amount |-> 0, occurrences |-> 0]

RECURSIVE TrackItems(_, _, _)
\* the inner loop over one receipt's items
TrackItems(items, month_id, tracker) ==
    LET Track(key) ==
            LET old == DictGet(tracker, key, NewTracker)
                new == [months |-> old.months \cup {month_id},
                        total_amount |-> old.total_amount + items[1].amount,
                        occurrences |-> old.occurrences + 1]
            IN  TrackItems(Tail(items), month_id, DictSet(tracker, key, new))
    IN  IF items = <<>> THEN tracker ELSE Track(ItemKey(items[1]))

RECURSIVE TrackReceipts(_, _)
\* the loop over the streamed documents; receipt["timestamp"].strftime raises
\* AttributeError on a str and ends it
TrackReceipts(txs, tracker) ==
    IF txs = <<>> THEN [tracker |-> tracker]
    ELSE IF ~IsDatetime(txs[1].timestamp) THEN [raised |-> "AttributeError"]
    ELSE TrackReceipts(Tail(txs),
                       TrackItems(txs[1].items, StrfYearMonth(txs[1].timestamp),
                                  tracker))

\* (a detector that counts occurrences instead of months)
IsRecurring_ByOccurrences(data) == data.occurrences >= 2

\* len(data["months"]) >= 2
IsRecurring(data) == Cardinality(data.months) >= 2

\* (the average taken per month instead of per occurrence)
RecurringEntry_PerMonth(key, data) ==
    LET average == TrueDiv(data.total_amount, Cardinality(data.months))
    IN  [name |-> key[1],
         category |-> key[2],
         months_appeared |-> Sorted(data.months),
         total_amount |-> Round2(data.total_amount, 1),
         average_amount |-> IF average.raised THEN 0
                            ELSE Round2(average.num, average.den),
         raised |-> average.raised]

\* the entry appended to recurring_items for a tracked key
RecurringEntry(key, data) ==
    LET average == TrueDiv(data.total_amount, data.occurrences)
    IN  [name |-> key[1],
         category |-> key[2],
         months_appeared |-> Sorted(data.months),
         total_amount |-> Round2(data.total_amount, 1),
         average_amount |-> IF average.raised THEN 0
                            ELSE Round2(average.num, average.den),
         raised |-> average.raised]

\* (a detector that reads the aggregator's state key and leaves out the
\* receipts of the month reported there)
detect_recurring_expenses_AfterAggregator(uid, txs) ==
    LET fresh(r) == ~ /\ Returned(dashboard_metrics)
                      /\ IsDatetime(r.timestamp)
                      /\ StrfYearMonth(r.timestamp) = dashboard_metrics.month
        isRecurring(kv) == IsRecurring(kv[2])
        Report(entries) ==
            [uid |-> uid,
             recurring_items |->
                [i \in DOMAIN entries |->
                   [f \in {"name", "category", "months_appeared", "total_amount",
                           "average_amount"} |-> entries[i][f]]]]
        Entries(kept) ==
            [i \in DOMAIN kept |-> RecurringEntry(kept[i][1], kept[i][2])]
        Tracked(tracked) ==
            IF "raised" \in DOMAIN tracked THEN tracked
            ELSE Report(Entries(SelectSeq(tracked.tracker, isRecurring)))
    IN  Tracked(TrackReceipts(SelectSeq(txs, fresh), <<>>))

detect_recurring_expenses(uid, txs) ==
    LET isRecurring(kv) == IsRecurring(kv[2])
        Report(entries) ==
            IF \E i \in DOMAIN entries : entries[i].raised
            THEN [raised |-> "ZeroDivisionError"]
            ELSE [uid |-> uid,
                  recurring_items |->
                     [i \in DOMAIN entries |->
                        [f \in {"name", "category", "months_appeared",
                                "total_amount", "average_amount"} |->
                           entries[i][f]]]]
        Entries(kept) ==
            [i \in DOMAIN kept |-> RecurringEntry(kept[i][1], kept[i][2])]
        Tracked(tracked) ==
            IF "raised" \in DOMAIN tracked THEN tracked
            ELSE Report(Entries(SelectSeq(tracked.tracker, isRecurring)))
    IN  Tracked(TrackReceipts(txs, <<>>))

DetectRecurring ==
    /\ recurring_expenses' = detect_recurring_expenses(Uid, transactions)
    /\ UNCHANGED <<transactions, analytics, dashboard_metrics, trend_insights,
                   spending_anomalies, time_slot_breakdown,
                   ingestion, pipeline, tool_runs>>

\* Receipt histories for the recurring-expense detector: up to
\* MaxRecurringReceipts receipts, each with at most two items of RecurringItems
\* and one of RecurringTimestamps (two of them in the same month, and a year
\* boundary between the months).
MaxRecurringReceipts == 2

RecurringItems ==
    { Item(Milk, Groceries, 60),
      Item(MilkSpaced, GroceriesCapped, 65),
      Item(Milk, Dairy, 60) }

RecurringBaskets ==
    {<<>>} \cup {<<a>> : a \in RecurringItems}
           \cup {<<a, b>> : a \in RecurringItems, b \in RecurringItems}

RecurringTimestamps ==
    { [year |-> 2024, month |-> 12, day |-> 31, hour |-> 23],
      [year |-> 2025, month |-> 1, day |-> 1, hour |-> 0],
      [year |-> 2025, month |-> 1, day |-> 15, hour |-> 12] }

RecurringBodies ==
    { Body(ts, CategorySummaryOf(b), b) :
        ts \in RecurringTimestamps, b \in RecurringBaskets }

InitRecurring ==
    /\ IsHistory(transactions, RecurringBodies, MaxRecurringReceipts)
    /\ analytics = <<>>
    /\ NoResults
    /\ NothingStored

SpecRecurring == InitRecurring /\ [][DetectRecurring]_vars

---------------------------------------------------------------------------
(* TimeSlotTool.analyze_time_slots                                         *)

\* (a morning that starts after 5 and an evening that ends after 21)
SlotOf_ShiftedBounds(hour) ==
    IF 5 < hour /\ hour < 12 THEN "morning"
    ELSE IF 12 <= hour /\ hour < 17 THEN "afternoon"
    ELSE IF 17 <= hour /\ hour <= 21 THEN "evening"
    ELSE "night"

\* the if / elif chain on hour
SlotOf(hour) ==
    IF 5 <= hour /\ hour < 12 THEN "morning"
    ELSE IF 12 <= hour /\ hour < 17 THEN "afternoon"
    ELSE IF 17 <= hour /\ hour < 21 THEN "evening"
    ELSE "night"

\* timestamp, or datetime.fromisoformat(timestamp) when it is no datetime
AsDatetime(timestamp) ==
    IF IsDatetime(timestamp) THEN timestamp ELSE FromIsoformat(timestamp.str)

\* (an assignment instead of an accumulation)
AddToSlot_Overwrite(slot_totals, slot, total) == DictSet(slot_totals, slot, total)

\* (a receipt without spend leaving no trace in its slot)
AddToSlot_SkipZero(slot_totals, slot, total) ==
    IF total = 0 THEN slot_totals
    ELSE DictSet(slot_totals, slot, DictGet(slot_totals, slot, 0) + total)

\* slot_totals[slot] += total, on a defaultdict(float)
AddToSlot(slot_totals, slot, total) ==
    DictSet(slot_totals, slot, DictGet(slot_totals, slot, 0) + total)

RECURSIVE SlotTotals(_, _)
\* the loop over the streamed documents; a raised exception ends it
SlotTotals(txs, slot_totals) ==
    LET Add(timestamp) ==
            IF "raised" \in DOMAIN timestamp THEN timestamp
            ELSE SlotTotals(Tail(txs),
                            AddToSlot(slot_totals, SlotOf(timestamp.hour),
                                      ItemTotal(txs[1])))
    IN  IF txs = <<>> THEN [slot_summary |-> slot_totals]
        ELSE Add(AsDatetime(txs[1].timestamp))

analyze_time_slots(uid, txs) ==
    LET Report(done) ==
            IF "raised" \in DOMAIN done THEN done
            ELSE [uid |-> uid, slot_summary |-> done.slot_summary]
    IN  Report(SlotTotals(txs, <<>>))

AnalyzeTimeSlots ==
    /\ time_slot_breakdown' = analyze_time_slots(Uid, transactions)
    /\ UNCHANGED <<transactions, analytics, dashboard_metrics, trend_insights,
                   recurring_expenses, spending_anomalies, ingestion, pipeline,
                   tool_runs>>

\* Receipt histories for the time-slot analyzer: up to MaxSlotReceipts receipts,
\* stamped at any hour of one day as a datetime, or at a slot boundary hour (and
\* the hour before it) as an ISO string; the items are none, or two whose
\* amounts the category_summary does not repeat.
MaxSlotReceipts == 2

SlotDay(h) == [year |-> 2025, month |-> 7, day |-> 24, hour |-> h]

SlotTimestamps ==
    {SlotDay(h) : h \in 0..23}
      \cup {[str |-> Isoformat(SlotDay(h))] : h \in {4, 5, 11, 12, 16, 17, 20, 21}}

SlotBodies ==
    {Body(ts, <<>>, <<>>) : ts \in SlotTimestamps}
      \cup {Body(ts, <<<<Groceries, 1>>>>,
                 <<Item(Milk, Groceries, 60), Item(Soap, Household, 40)>>) :
              ts \in SlotTimestamps}

InitTimeSlots ==
    /\ IsHistory(transactions, SlotBodies, MaxSlotReceipts)
    /\ analytics = <<>>
    /\ NoResults
    /\ NothingStored

SpecTimeSlots == InitTimeSlots /\ [][AnalyzeTimeSlots]_vars

---------------------------------------------------------------------------
(* CoreAggregatorTool.aggregate_user_monthly_data                          *)

\* datetime(year, month, 1): ValueError unless 1 <= year <= 9999 and
\* 1 <= month <= 12
WindowStart(year, month) == Datetime(year, month, 1)

\* (the month after, without the step into the next year)
WindowEnd_NoRollover(year, month) == Datetime(year, month + 1, 1)

\* datetime(year + (month // 12), (month % 12) + 1, 1): ValueError for
\* December 9999
WindowEnd(year, month) == Datetime(year + (month \div 12), (month % 12) + 1, 1)

\* the place of a document in the index on timestamp: behind the documents
\* that are not later than it
InsertByTimestamp(ordered, doc) ==
    LET notLater(r) == ~DtLess(doc.timestamp, r.timestamp)
        Behind(k) == SubSeq(ordered, 1, k) \o <<doc>>
                        \o SubSeq(ordered, k + 1, Len(ordered))
    IN  Behind(Len(SelectSeq(ordered, notLater)))

RECURSIVE OrderByTimestamp(_, _)
\* documents in the order of the index on timestamp: by timestamp, those of
\* one timestamp by document id, which is the order of the collection
OrderByTimestamp(docs, ordered) ==
    IF docs = <<>> THEN ordered
    ELSE OrderByTimestamp(Tail(docs), InsertByTimestamp(ordered, docs[1]))

\* .where("timestamp", ">=", start).where("timestamp", "<", end).stream():
\* a range filter against a datetime matches timestamp-typed fields only, and
\* the matches come in the order of the filtered field
QueryWindow(txs, start, end) ==
    LET matches(r) == /\ IsDatetime(r.timestamp)
                      /\ ~DtLess(r.timestamp, start)
                      /\ DtLess(r.timestamp, end)
    IN  OrderByTimestamp(SelectSeq(txs, matches), <<>>)

\* (an assignment instead of an accumulation)
AddCategory_Overwrite(breakdown, cat, amt) == DictSet(breakdown, cat, amt)

\* category_breakdown[cat] = category_breakdown.get(cat, 0) + amt
AddCategory(breakdown, cat, amt) ==
    DictSet(breakdown, cat, DictGet(breakdown, cat, 0) + amt)

RECURSIVE AddCategories(_, _)
\* for cat, amt in receipt["category_summary"].items()
AddCategories(summary, breakdown) ==
    IF summary = <<>> THEN breakdown
    ELSE AddCategories(Tail(summary),
                       AddCategory(breakdown, summary[1][1], summary[1][2]))

\* (an assignment instead of an accumulation)
AddDay_Overwrite(daily_series, date_str, day_total) ==
    DictSet(daily_series, date_str, day_total)

\* daily_series[date_str] = daily_series.get(date_str, 0) + day_total
AddDay(daily_series, date_str, day_total) ==
    DictSet(daily_series, date_str, DictGet(daily_series, date_str, 0) + day_total)

RECURSIVE AggregateLoop(_, _)
\* for doc in txs
AggregateLoop(txs, acc) ==
    IF txs = <<>> THEN acc
    ELSE LET receipt   == txs[1]
             date_str  == StrfDate(receipt.timestamp)
             day_total == SumSeq(DictValues(receipt.category_summary))
         IN  AggregateLoop(Tail(txs),
               [total_spend |-> acc.total_spend + day_total,
                category_breakdown |->
                    AddCategories(receipt.category_summary, acc.category_breakdown),
                daily_series |-> AddDay(acc.daily_series, date_str, day_total),
                receipt_count |-> acc.receipt_count + 1])

\* (a sort that puts a later item before an earlier one of equal amount)
InsertDescending_Unstable(sorted, kv) ==
    LET before == Cardinality({i \in DOMAIN sorted : sorted[i][2] > kv[2]})
    IN  SubSeq(sorted, 1, before) \o <<kv>> \o SubSeq(sorted, before + 1, Len(sorted))

\* the place sorted(..., key=amount, reverse=True) gives an item among those
\* before it: after every item of a greater or equal amount (the sort is stable)
InsertDescending(sorted, kv) ==
    LET before == Cardinality({i \in DOMAIN sorted : sorted[i][2] >= kv[2]})
    IN  SubSeq(sorted, 1, before) \o <<kv>> \o SubSeq(sorted, before + 1, Len(sorted))

RECURSIVE SortDescending(_, _)
\* sorted(category_breakdown.items(), key=lambda x: x[1], reverse=True)
SortDescending(items, sorted) ==
    IF items = <<>> THEN sorted
    ELSE SortDescending(Tail(items), InsertDescending(sorted, items[1]))

TopCount == 5     \* [:5]

\* (no truncation)
TakeTop_All(sorted) == sorted

\* sorted(...)[:5]
TakeTop(sorted) ==
    SubSeq(sorted, 1, IF Len(sorted) < TopCount THEN Len(sorted) ELSE TopCount)

\* (no guard against zero receipts)
AveragePerReceipt_Unguarded(total_spend, receipt_count) ==
    LET q == TrueDiv(total_spend, receipt_count)
    IN  [raised |-> q.raised,
         value |-> IF q.raised THEN 0 ELSE Round2(q.num, q.den)]

\* round(total_spend / receipt_count, 2) if receipt_count else 0.0
AveragePerReceipt(total_spend, receipt_count) ==
    IF receipt_count # 0
    THEN LET q == TrueDiv(total_spend, receipt_count)
         IN  [raised |-> q.raised,
              value |-> IF q.raised THEN 0 ELSE Round2(q.num, q.den)]
    ELSE [raised |-> FALSE, value |-> 0]

aggregate_user_monthly_data(uid, txs, year, month) ==
    LET start == WindowStart(year, month)
        end   == WindowEnd(year, month)
        acc   == AggregateLoop(QueryWindow(txs, start, end),
                               [total_spend |-> 0, category_breakdown |-> <<>>,
                                daily_series |-> <<>>, receipt_count |-> 0])
        top_categories == TakeTop(SortDescending(acc.category_breakdown, <<>>))
        average == AveragePerReceipt(acc.total_spend, acc.receipt_count)
    IN  IF "raised" \in DOMAIN start THEN start
        ELSE IF "raised" \in DOMAIN end THEN end
        ELSE IF average.raised THEN [raised |-> "ZeroDivisionError"]
        ELSE [uid |-> uid,
              month |-> PeriodLabel(year, month),
              total_spend |-> Round2(acc.total_spend, 1),
              category_breakdown |-> acc.category_breakdown,
              top_categories |-> DictKeys(top_categories),
              daily_series |-> acc.daily_series,
              receipt_count |-> acc.receipt_count,
              average_per_receipt |-> average.value]

\* the (year, month) arguments of the calls
CallPeriods == {<<2025, 7>>, <<2025, 8>>}

Aggregate ==
    \E p \in CallPeriods :
        /\ dashboard_metrics' = aggregate_user_monthly_data(Uid, transactions, p[1], p[2])
        /\ UNCHANGED <<transactions, analytics, trend_insights, recurring_expenses,
                       spending_anomalies, time_slot_breakdown,
                       ingestion, pipeline, tool_runs>>

\* Receipt histories for the aggregator, of two kinds.
\*  - Up to MaxMonthReceipts receipts on two days of July 2025 or at the first
\*    instant of August, each with one of MonthSummaries.
\*  - Up to MaxCatalogueReceipts receipts of one July day, each listing a run of
\*    consecutive categories of Catalogue, all with the same amount: this
\*    reaches more than TopCount categories, ties, and an insertion order that
\*    is not the catalogue's.
MaxMonthReceipts == 3

MaxCatalogueReceipts == 2

MonthTimestamps ==
    { [year |-> 2025, month |-> 7, day |-> 10, hour |-> 10],
      [year |-> 2025, month |-> 7, day |-> 24, hour |-> 18],
      [year |-> 2025, month |-> 8, day |-> 1, hour |-> 0] }

MonthSummaries ==
    { <<>>,
      <<<<Groceries, 1>>>>,
      <<<<Household, 2>>>>,
      <<<<Groceries, 1>>, <<Household, 2>>>>,
      <<<<Household, 1>>, <<Groceries, 1>>>> }

\* items that add up to the summary, one per category
ItemsFor(summary) ==
    [i \in DOMAIN summary |-> Item(Milk, summary[i][1], summary[i][2])]

MonthBodies ==
    { Body(ts, summary, ItemsFor(summary)) :
        ts \in MonthTimestamps, summary \in MonthSummaries }

Catalogue == <<Groceries, Household, Electronics, PersonalCare, Dining, Fuel>>

CatalogueSummaries ==
    {<<>>} \cup
    { [i \in 1..(last - first + 1) |-> <<Catalogue[first + i - 1], amount>>] :
        first \in DOMAIN Catalogue, last \in DOMAIN Catalogue, amount \in {1, 2} }

CatalogueBodies ==
    { Body([year |-> 2025, month |-> 7, day |-> 10, hour |-> 10],
           summary, ItemsFor(summary)) : summary \in CatalogueSummaries }

InitAggregator ==
    /\ \/ IsHistory(transactions, MonthBodies, MaxMonthReceipts)
       \/ IsHistory(transactions, CatalogueBodies, MaxCatalogueReceipts)
    /\ analytics = <<>>
    /\ NoResults
    /\ NothingStored

SpecAggregator == InitAggregator /\ [][Aggregate]_vars

\* The aggregator called for every month from December 2024 to January 2026,
\* over up to MaxWindowReceipts receipts of two categories, stamped at the last
\* hour of a month or at the first instant of the next; and called with a
\* month that is none (0, 13) and for the last month datetime can represent.
WindowPeriods ==
    {<<2024, 12>>} \cup {<<2025, m>> : m \in 1..12} \cup {<<2026, 1>>}

NoWindowPeriods == {<<2025, 0>>, <<2025, 13>>, <<9999, 12>>}

AggregateAnyMonth ==
    \E p \in WindowPeriods \cup NoWindowPeriods :
        /\ dashboard_metrics' = aggregate_user_monthly_data(Uid, transactions, p[1], p[2])
        /\ UNCHANGED <<transactions, analytics, trend_insights, recurring_expenses,
                       spending_anomalies, time_slot_breakdown, ingestion, pipeline,
                       tool_runs>>

MaxWindowReceipts == 3

WindowTimestamps ==
    { [year |-> 2024, month |-> 12, day |-> 31, hour |-> 23],
      [year |-> 2025, month |-> 1,  day |-> 1,  hour |-> 0],
      [year |-> 2025, month |-> 11, day |-> 30, hour |-> 23],
      [year |-> 2025, month |-> 12, day |-> 1,  hour |-> 0],
      [year |-> 2025, month |-> 12, day |-> 31, hour |-> 23],
      [year |-> 2026, month |-> 1,  day |-> 1,  hour |-> 0] }

WindowBodies ==
    { Body(ts, <<<<Groceries, 1>>, <<Household, 2>>>>,
           <<Item(Milk, Groceries, 1), Item(Soap, Household, 2)>>) :
        ts \in WindowTimestamps }

InitWindows ==
    /\ IsHistory(transactions, WindowBodies, MaxWindowReceipts)
    /\ analytics = <<>>
    /\ NoResults
    /\ NothingStored

SpecWindows == InitWindows /\ [][AggregateAnyMonth]_vars

---------------------------------------------------------------------------
(* TrendTool.get_category_trends                                           *)

\* {} : what to_dict() stands for when the document does not exist
EmptyDoc == [f \in {} |-> 0]

\* get_doc(y, m): doc.to_dict() if doc.exists else {}
GetDoc(store, y, m) == DictGet(store, PeriodLabel(y, m), EmptyDoc)

\* .get("category_totals", {})
CategoryTotalsOf(doc) ==
    IF "category_totals" \in DOMAIN doc THEN doc.category_totals ELSE <<>>

\* (the month before without the roll to December of the year before)
PreviousPeriod_NoRollover(year, month) == <<year, month - 1>>

\* (year - 1, 12) if month == 1 else (year, month - 1)
PreviousPeriod(year, month) ==
    IF month = 1 THEN <<year - 1, 12>> ELSE <<year, month - 1>>

\* (a division without the guard on prev)
PercentChange_Unguarded(curr, prev, change) ==
    LET q == TrueDiv(change, prev)
    IN  [raised |-> q.raised,
         value |-> IF q.raised THEN 0 ELSE Round2Times100(q.num, q.den)]

\* (the quotient left as a fraction, not scaled to a percentage)
PercentChange_Fraction(curr, prev, change) ==
    IF prev # 0
    THEN LET q == TrueDiv(change, prev)
         IN  [raised |-> q.raised,
              value |-> IF q.raised THEN 0 ELSE Round2(q.num, q.den)]
    ELSE [raised |-> FALSE, value |-> IF curr # 0 THEN 10000 ELSE 0]

\* (anything over a previous amount of 0 counted as a 100% increase)
PercentChange_NewIsHundred(curr, prev, change) ==
    IF prev # 0
    THEN LET q == TrueDiv(change, prev)
         IN  [raised |-> q.raised,
              value |-> IF q.raised THEN 0 ELSE Round2Times100(q.num, q.den)]
    ELSE [raised |-> FALSE, value |-> 10000]

\* round((change / prev * 100) if prev != 0 else (100.0 if curr != 0 else 0.0), 2)
PercentChange(curr, prev, change) ==
    IF prev # 0
    THEN LET q == TrueDiv(change, prev)
         IN  [raised |-> q.raised,
              value |-> IF q.raised THEN 0 ELSE Round2Times100(q.num, q.den)]
    ELSE [raised |-> FALSE, value |-> IF curr # 0 THEN 10000 ELSE 0]

\* the body of the loop over all_categories
TrendEntry(cat, this_data, last_data) ==
    LET curr    == DictGet(this_data, cat, 0)
        prev    == DictGet(last_data, cat, 0)
        change  == curr - prev
        percent == PercentChange(curr, prev, change)
    IN  [raised |-> percent.raised,
         previous |-> Round2(prev, 1),
         current |-> Round2(curr, 1),
         change |-> Round2(change, 1),
         percent_change |-> percent.value]

\* (the categories of the current period alone)
AllCategories_CurrentOnly(this_data, last_data) == Range(DictKeys(this_data))

\* set(this_data) | set(last_data)
AllCategories(this_data, last_data) ==
    Range(DictKeys(this_data)) \cup Range(DictKeys(last_data))

\* the orders in which a set may be iterated
Orderings(S) == {order \in [1..Cardinality(S) -> S] : Range(order) = S}

\* `order` is the order in which the for loop meets all_categories
get_category_trends(uid, store, year, month, order) ==
    LET this_data == CategoryTotalsOf(GetDoc(store, year, month))
        prev      == PreviousPeriod(year, month)
        last_data == CategoryTotalsOf(GetDoc(store, prev[1], prev[2]))
        entries   == [i \in DOMAIN order |-> TrendEntry(order[i], this_data, last_data)]
    IN  IF \E i \in DOMAIN entries : entries[i].raised
        THEN [raised |-> "ZeroDivisionError"]
        ELSE [uid |-> uid,
              month |-> PeriodLabel(year, month),
              trend_summary |->
                 [i \in DOMAIN order |->
                    <<order[i],
                      [f \in {"previous", "current", "change", "percent_change"} |->
                          entries[i][f]]>>]]

\* the (year, month) arguments of the trend calls
TrendPeriods == {<<2024, 12>>} \cup {<<2025, m>> : m \in 1..12}

Trends ==
    \E p \in TrendPeriods :
      LET prev == PreviousPeriod(p[1], p[2])
          all_categories ==
              AllCategories(CategoryTotalsOf(GetDoc(analytics, p[1], p[2])),
                            CategoryTotalsOf(GetDoc(analytics, prev[1], prev[2])))
      IN  \E order \in Orderings(all_categories) :
            /\ trend_insights' = get_category_trends(Uid, analytics, p[1], p[2], order)
            /\ UNCHANGED <<transactions, analytics, dashboard_metrics,
                           recurring_expenses, spending_anomalies, time_slot_breakdown,
                           ingestion, pipeline, tool_runs>>

\* Snapshot stores for the trend analyzer: for each of three consecutive months
\* across a year boundary, no document, a document without category_totals, or
\* one whose category_totals holds neither, either or both of two categories
\* with one of SnapshotAmounts.
SnapshotMonths == <<<<2024, 12>>, <<2025, 1>>, <<2025, 2>>>>

SnapshotAmounts == {0, 100, 150}

SnapshotTotals ==
    { SelectSeq(<<<<Food, f>>, <<Rent, r>>>>, LAMBDA kv : kv[2] # -1) :
        f \in SnapshotAmounts \cup {-1}, r \in SnapshotAmounts \cup {-1} }

SnapshotDocs ==
    {[uid |-> Uid]} \cup {[uid |-> Uid, category_totals |-> t] : t \in SnapshotTotals}

NoDocument == [missing |-> TRUE]

InitTrends ==
    /\ transactions = <<>>
    /\ \E docs \in [DOMAIN SnapshotMonths -> SnapshotDocs \cup {NoDocument}] :
          analytics =
            SelectSeq([i \in DOMAIN SnapshotMonths |->
                         <<PeriodLabel(SnapshotMonths[i][1], SnapshotMonths[i][2]),
                           docs[i]>>],
                      LAMBDA kv : kv[2] # NoDocument)
    /\ NoResults
    /\ NothingStored

SpecTrends == InitTrends /\ [][Trends]_vars

---------------------------------------------------------------------------
(* The five tool functions over one store, called in any order and any     *)
(* number of times, as a caller of the functions may (InsightsAgents.py     *)
(* imports the five and hands each to an agent).  main.py is no such        *)
(* caller: its import of agents.tools.CoreAggregatorTool fails, and the     *)
(* receipts= keyword of its five calls is one no tool accepts.  Calls in    *)
(* different interpreter processes are included: the order in which a set   *)
(* of str is iterated may differ from one process to the next.              *)

\* The documents of users/{uid}/transactions the tools stream: up to
\* MaxEngineReceipts receipts, each one of EngineBodies, or the six receipts
\* of SpikeBodies.
MaxEngineReceipts == 2

JulyMorning == [year |-> 2025, month |-> 7, day |-> 10, hour |-> 10]
JulyEvening == [year |-> 2025, month |-> 7, day |-> 24, hour |-> 18]
JuneNight   == [year |-> 2025, month |-> 6, day |-> 30, hour |-> 23]

EngineBodies ==
    { \* a category_summary that agrees with the items
      Body(JulyMorning,
           CategorySummaryOf(<<Item(Milk, Groceries, 2), Item(Soap, Household, 1)>>),
           <<Item(Milk, Groceries, 2), Item(Soap, Household, 1)>>),
      \* a category_summary that disagrees with the items
      Body(JulyEvening, <<<<Groceries, 1>>>>, <<Item(Rice, Groceries, 8)>>),
      \* a timestamp kept as an ISO string
      Body([str |-> Isoformat(JulyEvening)],
           CategorySummaryOf(<<Item(Milk, Groceries, 2)>>),
           <<Item(Milk, Groceries, 2)>>),
      \* the month before
      Body(JuneNight,
           CategorySummaryOf(<<Item(Milk, Groceries, 3)>>),
           <<Item(Milk, Groceries, 3)>>) }

\* five receipts without items and one whose total stands out
SpikeBodies ==
    [i \in 1..6 |->
        IF i < 6 THEN Body(AnomalyTimestamp, <<>>, <<>>)
        ELSE Body(AnomalyTimestamp, <<<<Groceries, 9>>>>,
                  <<Item(Rice, Groceries, 8), Item(Milk, Groceries, 1)>>)]

\* Snapshot stores: none, or the snapshots of June and July 2025.
EngineSnapshots ==
    { <<>>,
      << <<PeriodLabel(2025, 6), [uid |-> Uid, category_totals |-> <<<<Food, 100>>>>]>>,
         <<PeriodLabel(2025, 7),
           [uid |-> Uid, category_totals |-> <<<<Food, 150>>, <<Rent, 100>>>>]>> >> }

InitEngine ==
    /\ \/ IsHistory(transactions, EngineBodies, MaxEngineReceipts)
       \/ transactions = Collection(SpikeBodies)
    /\ analytics \in EngineSnapshots
    /\ NoResults
    /\ NothingStored

NextEngine ==
    \/ Aggregate
    \/ Trends
    \/ DetectRecurring
    \/ DetectAnomalies
    \/ AnalyzeTimeSlots

SpecEngine == InitEngine /\ [][NextEngine]_vars

---------------------------------------------------------------------------
(* The five tool functions step by step.  A call reads its collection one   *)
(* document at a time: stream() yields the documents as the for loop asks   *)
(* for them, and the trend analyzer gets its two snapshots one after the    *)
(* other.  Between two reads of one call the other calls take any number   *)
(* of steps.  The accumulators of a call are created inside it and are a   *)
(* function of the documents it has read, so a run keeps those documents   *)
(* (tool_runs[tool].docs) and the report is built from them when the       *)
(* stream ends.  Each tool is called once.                                 *)

\* the run of `tool`, and the step that makes it `run` and leaves the runs of
\* the other tools alone
RunOf(tool) == tool_runs[tool]

RunBecomes(tool, run) == tool_runs' = [tool_runs EXCEPT ![tool] = run]

\* the run has read the document `doc`
HasRead(run, doc) == [run EXCEPT !.docs = Append(@, doc)]

\* the (year, month) arguments of the calls
InterleavedPeriods == {<<2025, 7>>}

\* CoreAggregatorTool.py:12-21: the window, the query and the accumulators
AggregatorCall ==
    /\ RunOf("aggregate_user_monthly_data").at = "idle"
    /\ \E p \in InterleavedPeriods :
          RunBecomes("aggregate_user_monthly_data",
                     [at |-> "stream", year |-> p[1], month |-> p[2], docs |-> <<>>])
    /\ UNCHANGED <<transactions, analytics, dashboard_metrics, trend_insights,
                   recurring_expenses, spending_anomalies, time_slot_breakdown,
                   ingestion, pipeline>>

\* the documents the query of the run yields, in order
AggregatorStream(run) ==
    QueryWindow(transactions, WindowStart(run.year, run.month),
                WindowEnd(run.year, run.month))

\* CoreAggregatorTool.py:23-35: one turn of the loop
AggregatorNext ==
    LET run == RunOf("aggregate_user_monthly_data")
    IN  /\ run.at = "stream"
        /\ Len(run.docs) < Len(AggregatorStream(run))
        /\ RunBecomes("aggregate_user_monthly_data",
                      HasRead(run, AggregatorStream(run)[Len(run.docs) + 1]))
        /\ UNCHANGED <<transactions, analytics, dashboard_metrics, trend_insights,
                       recurring_expenses, spending_anomalies, time_slot_breakdown,
                       ingestion, pipeline>>

\* CoreAggregatorTool.py:37-49: the stream has ended
AggregatorReturn ==
    LET run == RunOf("aggregate_user_monthly_data")
    IN  /\ run.at = "stream"
        /\ Len(run.docs) = Len(AggregatorStream(run))
        /\ dashboard_metrics' =
              aggregate_user_monthly_data(Uid, run.docs, run.year, run.month)
        /\ RunBecomes("aggregate_user_monthly_data", [run EXCEPT !.at = "returned"])
        /\ UNCHANGED <<transactions, analytics, trend_insights,
                       recurring_expenses, spending_anomalies, time_slot_breakdown,
                       ingestion, pipeline>>

\* TrendTool.py:7-19: the call and get_doc(year, month)
TrendCall ==
    /\ RunOf("get_category_trends").at = "idle"
    /\ \E p \in InterleavedPeriods :
          RunBecomes("get_category_trends",
                     [at |-> "get_last", year |-> p[1], month |-> p[2],
                      docs |-> <<<<PeriodLabel(p[1], p[2]),
                                   GetDoc(analytics, p[1], p[2])>>>>])
    /\ UNCHANGED <<transactions, analytics, dashboard_metrics, trend_insights,
                   recurring_expenses, spending_anomalies, time_slot_breakdown,
                   ingestion, pipeline>>

\* TrendTool.py:21-22: get_doc(prev_year, prev_month)
TrendGetLast ==
    LET run  == RunOf("get_category_trends")
        prev == PreviousPeriod(run.year, run.month)
    IN  /\ run.at = "get_last"
        /\ RunBecomes("get_category_trends",
                      [HasRead(run, <<PeriodLabel(prev[1], prev[2]),
                                      GetDoc(analytics, prev[1], prev[2])>>)
                         EXCEPT !.at = "build"])
        /\ UNCHANGED <<transactions, analytics, dashboard_metrics, trend_insights,
                       recurring_expenses, spending_anomalies, time_slot_breakdown,
                       ingestion, pipeline>>

\* TrendTool.py:25-46: the trend map, built from the two documents the run
\* holds, in the order the set of categories is iterated
TrendReturn ==
    LET run == RunOf("get_category_trends")
    IN  /\ run.at = "build"
        /\ \E order \in Orderings(AllCategories(CategoryTotalsOf(run.docs[1][2]),
                                                CategoryTotalsOf(run.docs[2][2]))) :
              trend_insights' =
                  get_category_trends(Uid, run.docs, run.year, run.month, order)
        /\ RunBecomes("get_category_trends", [run EXCEPT !.at = "returned"])
        /\ UNCHANGED <<transactions, analytics, dashboard_metrics,
                       recurring_expenses, spending_anomalies, time_slot_breakdown,
                       ingestion, pipeline>>

\* RecurringExpenseTool.py:13-19: stream() and the tracker
RecurringCall ==
    /\ RunOf("detect_recurring_expenses").at = "idle"
    /\ RunBecomes("detect_recurring_expenses", [at |-> "stream", docs |-> <<>>])
    /\ UNCHANGED <<transactions, analytics, dashboard_metrics, trend_insights,
                   recurring_expenses, spending_anomalies, time_slot_breakdown,
                   ingestion, pipeline>>

\* RecurringExpenseTool.py:21-29: one turn of the loop; strftime on a str
\* timestamp raises AttributeError, which ends the call
RecurringNext ==
    LET run  == RunOf("detect_recurring_expenses")
        Read(doc) ==
            IF IsDatetime(doc.timestamp)
            THEN /\ RunBecomes("detect_recurring_expenses", HasRead(run, doc))
                 /\ UNCHANGED recurring_expenses
            ELSE /\ RunBecomes("detect_recurring_expenses",
                               [HasRead(run, doc) EXCEPT !.at = "returned"])
                 /\ recurring_expenses' =
                       detect_recurring_expenses(Uid, Append(run.docs, doc))
    IN  /\ run.at = "stream"
        /\ Len(run.docs) < Len(transactions)
        /\ Read(transactions[Len(run.docs) + 1])
        /\ UNCHANGED <<transactions, analytics, dashboard_metrics, trend_insights,
                       spending_anomalies, time_slot_breakdown,
                       ingestion, pipeline>>

\* RecurringExpenseTool.py:31-46: the stream has ended
RecurringReturn ==
    LET run == RunOf("detect_recurring_expenses")
    IN  /\ run.at = "stream"
        /\ Len(run.docs) = Len(transactions)
        /\ recurring_expenses' = detect_recurring_expenses(Uid, run.docs)
        /\ RunBecomes("detect_recurring_expenses", [run EXCEPT !.at = "returned"])
        /\ UNCHANGED <<transactions, analytics, dashboard_metrics, trend_insights,
                       spending_anomalies, time_slot_breakdown,
                       ingestion, pipeline>>

\* anomolytool.py:14-17: stream() and the two accumulators
AnomalyCall ==
    /\ RunOf("detect_anomalies_for_user").at = "idle"
    /\ RunBecomes("detect_anomalies_for_user", [at |-> "stream", docs |-> <<>>])
    /\ UNCHANGED <<transactions, analytics, dashboard_metrics, trend_insights,
                   recurring_expenses, spending_anomalies, time_slot_breakdown,
                   ingestion, pipeline>>

\* anomolytool.py:19-26: one turn of the loop; receipt["total_spend"] = total
\* is an assignment to the dictionary of the run
AnomalyNext ==
    LET run == RunOf("detect_anomalies_for_user")
    IN  /\ run.at = "stream"
        /\ Len(run.docs) < Len(transactions)
        /\ RunBecomes("detect_anomalies_for_user",
                      HasRead(run, transactions[Len(run.docs) + 1]))
        /\ transactions' = StoredAfterTotals(transactions)
        /\ UNCHANGED <<analytics, dashboard_metrics, trend_insights,
                       recurring_expenses, spending_anomalies, time_slot_breakdown,
                       ingestion, pipeline>>

\* anomolytool.py:28-64: the stream has ended
AnomalyReturn ==
    LET run == RunOf("detect_anomalies_for_user")
    IN  /\ run.at = "stream"
        /\ Len(run.docs) = Len(transactions)
        /\ spending_anomalies' = detect_anomalies_for_user(Uid, run.docs)
        /\ RunBecomes("detect_anomalies_for_user", [run EXCEPT !.at = "returned"])
        /\ UNCHANGED <<transactions, analytics, dashboard_metrics, trend_insights,
                       recurring_expenses, time_slot_breakdown,
                       ingestion, pipeline>>

\* TimeSlotTool.py:12-14: stream() and slot_totals
TimeSlotCall ==
    /\ RunOf("analyze_time_slots").at = "idle"
    /\ RunBecomes("analyze_time_slots", [at |-> "stream", docs |-> <<>>])
    /\ UNCHANGED <<transactions, analytics, dashboard_metrics, trend_insights,
                   recurring_expenses, spending_anomalies, time_slot_breakdown,
                   ingestion, pipeline>>

\* TimeSlotTool.py:16-35: one turn of the loop; fromisoformat on a str that
\* is no date raises ValueError, which ends the call
TimeSlotNext ==
    LET run  == RunOf("analyze_time_slots")
        Read(doc) ==
            IF "raised" \notin DOMAIN AsDatetime(doc.timestamp)
            THEN /\ RunBecomes("analyze_time_slots", HasRead(run, doc))
                 /\ UNCHANGED time_slot_breakdown
            ELSE /\ RunBecomes("analyze_time_slots",
                               [HasRead(run, doc) EXCEPT !.at = "returned"])
                 /\ time_slot_breakdown' =
                       analyze_time_slots(Uid, Append(run.docs, doc))
    IN  /\ run.at = "stream"
        /\ Len(run.docs) < Len(transactions)
        /\ Read(transactions[Len(run.docs) + 1])
        /\ UNCHANGED <<transactions, analytics, dashboard_metrics, trend_insights,
                       recurring_expenses, spending_anomalies,
                       ingestion, pipeline>>

\* TimeSlotTool.py:37-41: the stream has ended
TimeSlotReturn ==
    LET run == RunOf("analyze_time_slots")
    IN  /\ run.at = "stream"
        /\ Len(run.docs) = Len(transactions)
        /\ time_slot_breakdown' = analyze_time_slots(Uid, run.docs)
        /\ RunBecomes("analyze_time_slots", [run EXCEPT !.at = "returned"])
        /\ UNCHANGED <<transactions, analytics, dashboard_metrics, trend_insights,
                       recurring_expenses, spending_anomalies,
                       ingestion, pipeline>>

\* The documents of users/{uid}/transactions: up to MaxInterleavedReceipts
\* receipts, each one of InterleavedBodies; users/{uid}/analytics holds the
\* snapshots of June and July 2025.
MaxInterleavedReceipts == 2

InterleavedBodies ==
    { \* two items, one of them also bought the month before
      Body(JulyMorning,
           CategorySummaryOf(<<Item(Milk, Groceries, 2), Item(Soap, Household, 1)>>),
           <<Item(Milk, Groceries, 2), Item(Soap, Household, 1)>>),
      \* a timestamp kept as an ISO string
      Body([str |-> Isoformat(JulyEvening)],
           CategorySummaryOf(<<Item(Rice, Groceries, 8)>>),
           <<Item(Rice, Groceries, 8)>>),
      \* the month before
      Body(JuneNight,
           CategorySummaryOf(<<Item(Milk, Groceries, 3)>>),
           <<Item(Milk, Groceries, 3)>>) }

InitInterleaved ==
    /\ IsHistory(transactions, InterleavedBodies, MaxInterleavedReceipts)
    /\ analytics \in EngineSnapshots \ {<<>>}
    /\ NoResults
    /\ NothingStored

NextInterleaved ==
    \/ AggregatorCall \/ AggregatorNext \/ AggregatorReturn
    \/ TrendCall \/ TrendGetLast \/ TrendReturn
    \/ RecurringCall \/ RecurringNext \/ RecurringReturn
    \/ AnomalyCall \/ AnomalyNext \/ AnomalyReturn
    \/ TimeSlotCall \/ TimeSlotNext \/ TimeSlotReturn

SpecInterleaved == InitInterleaved /\ [][NextInterleaved]_vars

---------------------------------------------------------------------------
(* The aggregator, the time-slot analyzer and the anomaly detector over     *)
(* receipts whose amounts are floats that need not be whole numbers.  In    *)
(* this section every number of a document and of a report is written as   *)
(* its float record, a whole one too: 60.0 is [neg |-> FALSE, m |-> <<15>>, *)
(* e |-> 2], and the int 0 that sum() gives for no values is 0.0.  sum()    *)
(* adds from left to right, rounding after each addition.                   *)

\* the float of the decimal literal n / 100, as float("0.10") for n = 10
Hundredths(n) == DecimalToDouble(FALSE, BigOfInt(n), Len(DecStr(n)), -2)

RECURSIVE FloatSumFrom(_, _)
FloatSumFrom(xs, acc) ==
    IF xs = <<>> THEN acc ELSE FloatSumFrom(Tail(xs), FloatPlus(acc, xs[1]))

\* sum(xs) of floats
FloatSum(xs) == FloatSumFrom(xs, FloatZero(FALSE))

\* x + y of finite floats without the rounding: [neg, m, e] of value m * 2^e,
\* where m may be even
ExactPlus(x, y) ==
    LET Sum(a, b, e) ==
            IF x.neg = y.neg THEN [neg |-> x.neg, m |-> BigPlus(a, b, 0), e |-> e]
            ELSE IF BigLess(a, b) THEN [neg |-> y.neg, m |-> BigMinus(b, a), e |-> e]
            ELSE [neg |-> x.neg, m |-> BigMinus(a, b), e |-> e]
        Aligned(e) ==
            Sum(BigShiftLeft(x.m, x.e - e), BigShiftLeft(y.m, y.e - e), e)
    IN  Aligned(IF x.e < y.e THEN x.e ELSE y.e)

RECURSIVE ExactSumFrom(_, _)
ExactSumFrom(xs, acc) ==
    IF xs = <<>> THEN acc ELSE ExactSumFrom(Tail(xs), ExactPlus(acc, xs[1]))

\* the sum of the finite floats xs in exact arithmetic
ExactSum(xs) == ExactSumFrom(xs, FloatZero(FALSE))

RECURSIVE BigTimes(_, _)
\* a * b
BigTimes(a, b) ==
    IF a = <<>> \/ b = <<>> THEN <<>>
    ELSE BigPlus(BigTimesPlus(a, b[1], 0),
                 BigTrim(<<0>> \o BigTimes(a, Tail(b))), 0)

\* the double nearest to (num / den) * 2^e, 0 < den: float / int, and
\* float(Fraction) for the exact mean of floats
FloatOfRatio(neg, num, den, e) ==
    LET Nearest(q, shift) ==
            RoundToDouble(neg, q.quot, e - shift, q.rem # <<>>)
        Divided(shift) == Nearest(BigDivide(num, shift, den), shift)
        Scaled(want) == Divided(IF want < 0 THEN 0 ELSE want)
    IN  IF num = <<>> THEN FloatZero(neg)
        ELSE Scaled(56 + BigBitLen(den) - BigBitLen(num))

\* x / n for a finite float x and an int 0 < n < 32768
FloatOverInt(x, n) == FloatOfRatio(x.neg, x.m, BigOfInt(n), x.e)

\* statistics.mean(xs) of finite floats, at least one: the exact sum over the
\* count, rounded once
FloatMean(xs) ==
    LET Over(sum) ==
            FloatOfRatio(sum.neg /\ sum.m # <<>>, sum.m, BigOfInt(Len(xs)), sum.e)
    IN  Over(ExactSum(xs))

\* statistics._float_sqrt_of_frac(n, m) for the fraction (num / den) * 4^e:
\* with q = (n.bit_length() - m.bit_length() - (2 * 53 + 3)) // 2, the root
\* a = isqrt((n << -2 * q) // m) for a negative q, isqrt(n // (m << 2 * q))
\* otherwise, gets its last digit set when a * a is not the whole of the
\* quotient, and a * 2^q is rounded.  (The double nearest to the root is the
\* same for every way of writing the fraction.)
FloatSqrtOfRatio(num, den, e) ==
    LET Nearest(a, exact, q) ==
            RoundToDouble(FALSE, a.root, q + e, ~a.exact \/ ~exact)
        Root(d, q) ==
            Nearest(BigIsqrt(d.quot), d.rem = <<>>, q)
        Shifted(q) ==
            Root(IF q < 0 THEN BigDivide(num, -2 * q, den)
                 ELSE BigDivide(num, 0, BigShiftLeft(den, 2 * q)), q)
    IN  IF num = <<>> THEN FloatZero(FALSE)
        ELSE Shifted((BigBitLen(num) - BigBitLen(den) - (2 * 53 + 3)) \div 2)

\* statistics.stdev(xs) of finite floats, at least two: with xs[i] = n[i] * 2^e
\* for integers n[i], sx their sum and sxx the sum of their squares, the square
\* root of (count * sxx - sx * sx) / count / (count - 1) * 4^e
FloatStdev(xs) ==
    LET count == Len(xs)
        e == CHOOSE least \in {xs[i].e : i \in DOMAIN xs} :
                 \A i \in DOMAIN xs : least <= xs[i].e
        Squares(n) == [i \in DOMAIN n |-> [neg |-> FALSE, m |-> BigTimes(n[i], n[i]), e |-> 0]]
        Variance(sx, sxx) ==
            FloatSqrtOfRatio(BigMinus(BigTimesPlus(sxx, count, 0), BigTimes(sx, sx)),
                             BigOfInt(count * StdevDen(count)), e)
        Sums(n) ==
            Variance(ExactSum([i \in DOMAIN n |->
                                  [neg |-> xs[i].neg, m |-> n[i], e |-> 0]]).m,
                     ExactSum(Squares(n)).m)
    IN  Sums([i \in DOMAIN xs |-> BigShiftLeft(xs[i].m, xs[i].e - e)])

\* round(x, 2) as a float
RoundTwo(x) ==
    LET Of(r) == DecimalToDouble(r.neg, BigOfInt(r.hundredths),
                                 Len(DecStr(r.hundredths)), -2)
    IN  Of(RoundHundredths(x))

\* (the amount of the first item instead of the sum)
ItemTotalOfFloats_FirstItem(receipt) ==
    IF receipt.items = <<>> THEN FloatZero(FALSE) ELSE receipt.items[1].amount

\* sum(item["amount"] for item in receipt.get("items", []))
ItemTotalOfFloats(receipt) ==
    FloatSum([i \in DOMAIN receipt.items |-> receipt.items[i].amount])

RECURSIVE SummaryOfFloats(_, _)
\* wallet_creator.store_receipt_data:
\* category_summary[category] = category_summary.get(category, 0) + amount
SummaryOfFloats(items, summary) ==
    IF items = <<>> THEN summary
    ELSE SummaryOfFloats(Tail(items),
                         DictSet(summary, CategoryOf(items[1]),
                                 FloatPlus(DictGet(summary, CategoryOf(items[1]),
                                                   FloatZero(FALSE)),
                                           items[1].amount)))

\* TimeSlotTool.analyze_time_slots

\* slot_totals[slot] += total, on a defaultdict(float)
AddToSlotOfFloats(slot_totals, slot, total) ==
    DictSet(slot_totals, slot,
            FloatPlus(DictGet(slot_totals, slot, FloatZero(FALSE)), total))

RECURSIVE SlotTotalsOfFloats(_, _)
\* the loop over the streamed documents; a raised exception ends it
SlotTotalsOfFloats(txs, slot_totals) ==
    LET Add(timestamp) ==
            IF "raised" \in DOMAIN timestamp THEN timestamp
            ELSE SlotTotalsOfFloats(Tail(txs),
                     AddToSlotOfFloats(slot_totals, SlotOf(timestamp.hour),
                                       ItemTotalOfFloats(txs[1])))
    IN  IF txs = <<>> THEN [slot_summary |-> slot_totals]
        ELSE Add(AsDatetime(txs[1].timestamp))

analyze_time_slots_of_floats(uid, txs) ==
    LET Report(done) ==
            IF "raised" \in DOMAIN done THEN done
            ELSE [uid |-> uid, slot_summary |-> done.slot_summary]
    IN  Report(SlotTotalsOfFloats(txs, <<>>))

\* CoreAggregatorTool.aggregate_user_monthly_data

RECURSIVE AddCategoriesOfFloats(_, _)
\* category_breakdown[cat] = category_breakdown.get(cat, 0) + amt, for each
\* cat, amt of receipt["category_summary"].items()
AddCategoriesOfFloats(summary, breakdown) ==
    IF summary = <<>> THEN breakdown
    ELSE AddCategoriesOfFloats(Tail(summary),
             DictSet(breakdown, summary[1][1],
                     FloatPlus(DictGet(breakdown, summary[1][1], FloatZero(FALSE)),
                               summary[1][2])))

RECURSIVE AggregateLoopOfFloats(_, _)
\* for doc in txs
AggregateLoopOfFloats(txs, acc) ==
    IF txs = <<>> THEN acc
    ELSE LET receipt   == txs[1]
             date_str  == StrfDate(receipt.timestamp)
             day_total == FloatSum(DictValues(receipt.category_summary))
         IN  AggregateLoopOfFloats(Tail(txs),
               [total_spend |-> FloatPlus(acc.total_spend, day_total),
                category_breakdown |->
                    AddCategoriesOfFloats(receipt.category_summary,
                                          acc.category_breakdown),
                daily_series |->
                    DictSet(acc.daily_series, date_str,
                            FloatPlus(DictGet(acc.daily_series, date_str,
                                              FloatZero(FALSE)),
                                      day_total)),
                receipt_count |-> acc.receipt_count + 1])

\* the accumulators when the stream of the query has ended
AggregatedFloats(txs, year, month) ==
    AggregateLoopOfFloats(
        QueryWindow(txs, WindowStart(year, month), WindowEnd(year, month)),
        [total_spend |-> FloatZero(FALSE), category_breakdown |-> <<>>,
         daily_series |-> <<>>, receipt_count |-> 0])

\* the place sorted(..., key=amount, reverse=True) gives an item among those
\* before it: after every item of a greater or equal amount
InsertDescendingOfFloats(sorted, kv) ==
    LET before == Cardinality({i \in DOMAIN sorted : ~FloatLess(sorted[i][2], kv[2])})
    IN  SubSeq(sorted, 1, before) \o <<kv>> \o SubSeq(sorted, before + 1, Len(sorted))

RECURSIVE SortDescendingOfFloats(_, _)
\* sorted(category_breakdown.items(), key=lambda x: x[1], reverse=True)
SortDescendingOfFloats(items, sorted) ==
    IF items = <<>> THEN sorted
    ELSE SortDescendingOfFloats(Tail(items),
                                InsertDescendingOfFloats(sorted, items[1]))

\* round(total_spend / receipt_count, 2) if receipt_count else 0.0
AveragePerReceiptOfFloats(total_spend, receipt_count) ==
    IF receipt_count # 0 THEN RoundTwo(FloatOverInt(total_spend, receipt_count))
    ELSE FloatZero(FALSE)

aggregate_user_monthly_data_of_floats(uid, txs, year, month) ==
    LET Report(acc) ==
            [uid |-> uid,
             month |-> PeriodLabel(year, month),
             total_spend |-> RoundTwo(acc.total_spend),
             category_breakdown |-> acc.category_breakdown,
             top_categories |->
                 DictKeys(TakeTop(SortDescendingOfFloats(acc.category_breakdown, <<>>))),
             daily_series |-> acc.daily_series,
             receipt_count |-> acc.receipt_count,
             average_per_receipt |->
                 AveragePerReceiptOfFloats(acc.total_spend, acc.receipt_count)]
    IN  IF "raised" \in DOMAIN WindowStart(year, month) THEN WindowStart(year, month)
        ELSE IF "raised" \in DOMAIN WindowEnd(year, month) THEN WindowEnd(year, month)
        ELSE Report(AggregatedFloats(txs, year, month))

\* anomolytool.detect_anomalies_for_user

\* all_receipts when the stream has ended: receipt["total_spend"] = total on
\* the dictionary of each document
AllReceipts(txs) ==
    [i \in DOMAIN txs |->
        [f \in DOMAIN txs[i] \cup {"total_spend"} |->
            IF f = "total_spend" THEN ItemTotalOfFloats(txs[i]) ELSE txs[i][f]]]

\* 1.5 * avg: three halves of avg, rounded
ItemFactorTimes(avg) ==
    IF avg.m = <<>> THEN avg
    ELSE RoundToDouble(avg.neg, BigTimesPlus(avg.m, ItemFactorNum, 0),
                       avg.e - 1, FALSE)

\* avg > 0 and item["amount"] > 1.5 * avg
ItemIsHighOfFloats(amount, avg) ==
    /\ FloatLess(FloatZero(FALSE), avg)
    /\ FloatLess(ItemFactorTimes(avg), amount)

\* {cat: mean(amts) for cat, amts in category_spend.items()}
CategoryAvgOfFloats(spend) ==
    [i \in DOMAIN spend |-> <<spend[i][1], FloatMean(spend[i][2])>>]

\* the category_anomalies of one flagged receipt
CategoryAnomaliesOfFloats(receipt, category_avg) ==
    LET avg(item) == DictGet(category_avg, item.category, FloatZero(FALSE))
        high(item) == ItemIsHighOfFloats(item.amount, avg(item))
        entry(item) ==
            [name |-> item.name, category |-> item.category,
             amount |-> item.amount,
             avg_category_amount |-> RoundTwo(avg(item))]
        flagged == SelectSeq(receipt.items, high)
    IN  [i \in DOMAIN flagged |-> entry(flagged[i])]

\* one element of `anomalies`; receipt["timestamp"].isoformat() raises
\* AttributeError on a str
AnomalyEntryOfFloats(receipt, threshold, category_avg) ==
    IF ~IsDatetime(receipt.timestamp) THEN [raised |-> "AttributeError"]
    ELSE [receipt_id |-> receipt.receipt_id,
          timestamp |-> Isoformat(receipt.timestamp),
          merchant |-> receipt.merchant,
          total_spend |-> receipt.total_spend,
          anomaly_reason |-> AnomalyReason(threshold),
          category_anomalies |-> CategoryAnomaliesOfFloats(receipt, category_avg)]

detect_anomalies_for_user_of_floats(uid, txs) ==
    LET Report(entries) ==
            IF \E i \in DOMAIN entries : "raised" \in DOMAIN entries[i]
            THEN [raised |-> "AttributeError"]
            ELSE [uid |-> uid, anomalies |-> entries]
        Entries(flagged, threshold, category_avg) ==
            Report([i \in DOMAIN flagged |->
                      AnomalyEntryOfFloats(flagged[i], threshold, category_avg)])
        Compared(all_receipts, threshold) ==
            LET isAnomaly(r) == FloatLess(threshold, r.total_spend)
            IN  Entries(SelectSeq(all_receipts, isAnomaly), threshold,
                        CategoryAvgOfFloats(CategorySpend(
                            Flatten([i \in DOMAIN txs |-> txs[i].items]), <<>>)))
        Statistics(all_receipts, total_spends) ==
            IF NotEnoughData(total_spends) THEN NotEnoughDataMessage
            ELSE Compared(all_receipts,
                          FloatPlus(FloatMean(total_spends),
                                    FloatTimesInt(SigmaFactor,
                                                  FloatStdev(total_spends))))
        Totals(all_receipts) ==
            Statistics(all_receipts,
                       [i \in DOMAIN all_receipts |-> all_receipts[i].total_spend])
    IN  Totals(AllReceipts(txs))

\* The calls.  A run keeps what the call held when it returned: the
\* aggregator its unrounded total_spend, the anomaly detector all_receipts.
AggregateFloats ==
    \E p \in CallPeriods :
        /\ dashboard_metrics' =
              aggregate_user_monthly_data_of_floats(Uid, transactions, p[1], p[2])
        /\ RunBecomes("aggregate_user_monthly_data",
                      [at |-> "returned", year |-> p[1], month |-> p[2],
                       total_spend |->
                           AggregatedFloats(transactions, p[1], p[2]).total_spend])
        /\ UNCHANGED <<transactions, analytics, trend_insights, recurring_expenses,
                       spending_anomalies, time_slot_breakdown,
                       ingestion, pipeline>>

AnalyzeTimeSlotsOfFloats ==
    /\ time_slot_breakdown' = analyze_time_slots_of_floats(Uid, transactions)
    /\ RunBecomes("analyze_time_slots", [at |-> "returned"])
    /\ UNCHANGED <<transactions, analytics, dashboard_metrics, trend_insights,
                   recurring_expenses, spending_anomalies, ingestion, pipeline>>

DetectAnomaliesOfFloats ==
    /\ spending_anomalies' = detect_anomalies_for_user_of_floats(Uid, transactions)
    /\ RunBecomes("detect_anomalies_for_user",
                  [at |-> "returned", all_receipts |-> AllReceipts(transactions)])
    /\ transactions' = StoredAfterTotals(transactions)
    /\ UNCHANGED <<analytics, dashboard_metrics, trend_insights,
                   recurring_expenses, time_slot_breakdown, ingestion, pipeline>>

\* The documents of users/{uid}/transactions: up to MaxDecimalReceipts
\* receipts of July 2025, each one of DecimalBodies, or the six receipts of
\* DecimalSpike.
MaxDecimalReceipts == 2

FloatItem(n, c, hundredths) == Item(n, c, Hundredths(hundredths))

\* the receipt of `items` with the category_summary ingestion computes
DecimalBody(ts, items) == Body(ts, SummaryOfFloats(items, <<>>), items)

DecimalBodies ==
    { \* 0.1 + 0.1 is 0.2 and 0.2 + 5.0 is 5.2, but 0.1 + 5.0 + 0.1 is
      \* 5.199999999999999
      DecimalBody(JulyMorning,
                  <<FloatItem(Milk, Groceries, 10), FloatItem(Soap, Household, 500),
                    FloatItem(Rice, Groceries, 10)>>),
      \* amounts whose sums are exact: 60.0, 75.5 and 460.0
      DecimalBody(JulyEvening,
                  <<FloatItem(Milk, Groceries, 6000), FloatItem(Soap, Household, 7550),
                    FloatItem(Rice, Groceries, 46000)>>),
      \* a category_summary that disagrees with the items
      Body(JulyEvening, <<<<Groceries, Hundredths(110)>>>>,
           <<FloatItem(Rice, Groceries, 825)>>),
      \* whole amounts
      DecimalBody(JulyEvening,
                  <<FloatItem(Milk, Groceries, 200), FloatItem(Soap, Household, 100)>>),
      \* no items
      Body(JulyMorning, <<>>, <<>>) }

\* five receipts of 1.1 and one whose total, and whose first item, stand out
DecimalSpike ==
    [i \in 1..6 |->
        IF i < 6 THEN DecimalBody(AnomalyTimestamp, <<FloatItem(Milk, Groceries, 110)>>)
        ELSE DecimalBody(AnomalyTimestamp,
                         <<FloatItem(Rice, Groceries, 8025),
                           FloatItem(Milk, Groceries, 110)>>)]

InitDecimals ==
    /\ \/ IsHistory(transactions, DecimalBodies, MaxDecimalReceipts)
       \/ transactions = Collection(DecimalSpike)
    /\ analytics = <<>>
    /\ NoResults
    /\ NothingStored

NextDecimals ==
    \/ AggregateFloats
    \/ AnalyzeTimeSlotsOfFloats
    \/ DetectAnomaliesOfFloats

SpecDecimals == InitDecimals /\ [][NextDecimals]_vars

---------------------------------------------------------------------------
(* InsightsAgents.root_agent: the DashboardPipelineAgent                   *)
(*                                                                         *)
(* google.adk is imported, not part of the repository.  A SequentialAgent  *)
(* runs its sub_agents one after the other, each once.  An LlmAgent sends  *)
(* its instruction to the language model and reads the reply:              *)
(*  - a reply that asks for a function call makes the agent call its tool  *)
(*    with the arguments the reply names, and send the tool's return back  *)
(*    to the model with its next request;                                  *)
(*  - any other reply is final: its text, if it has content, is written to *)
(*    the session state under output_key, and the agent is done.           *)
(* Before each request the {key} placeholders of the instruction are       *)
(* replaced by the session state; a key that is not there raises KeyError. *)
(* An exception leaving a tool or the agent ends the run.  What the model  *)
(* replies is its own choice: whether and how often it calls the tool (at  *)
(* most MaxToolCalls times here), with which arguments, and which text.    *)

\* core_aggregator_agent ... insight_agent: name=, tools=, output_key=, and the
\* {keys} of instruction=
core_aggregator_agent ==
    [name |-> "CoreAggregatorAgent", tools |-> {"aggregate_user_monthly_data"},
     output_key |-> "dashboard_metrics", placeholders |-> {}]

trend_agent ==
    [name |-> "TrendAgent", tools |-> {"get_category_trends"},
     output_key |-> "trend_insights", placeholders |-> {}]

recurring_expense_agent ==
    [name |-> "RecurringExpenseAgent", tools |-> {"detect_recurring_expenses"},
     output_key |-> "recurring_expenses", placeholders |-> {}]

anomaly_agent ==
    [name |-> "AnomalyAgent", tools |-> {"detect_anomalies_for_user"},
     output_key |-> "spending_anomalies", placeholders |-> {}]

time_slot_agent ==
    [name |-> "TimeSlotAgent", tools |-> {"analyze_time_slots"},
     output_key |-> "time_slot_breakdown", placeholders |-> {}]

insight_agent ==
    [name |-> "InsightAgent", tools |-> {},
     output_key |-> "insight_text",
     placeholders |-> {"dashboard_metrics", "trend_insights", "recurring_expenses",
                       "spending_anomalies", "time_slot_breakdown"}]

\* (the summarizer placed first)
SubAgents_InsightFirst ==
    <<insight_agent, core_aggregator_agent, trend_agent, recurring_expense_agent,
      anomaly_agent, time_slot_agent>>

\* sub_agents=[...]
SubAgents ==
    <<core_aggregator_agent, trend_agent, recurring_expense_agent,
      anomaly_agent, time_slot_agent, insight_agent>>

\* the SequentialAgent has a sub-agent running, and the run has not ended
Running == sub_agent \in DOMAIN SubAgents /\ llm_flow.at # "raised"

\* the tool calls one agent's model may ask for
MaxToolCalls == 1

\* the arguments the model may name: the user of the store or another one
\* (the collections of another user are empty), a month with receipts or a
\* month that is none
Anonymous == <<97,110,111,110,121,109,111,117,115>>   \* "anonymous"

LlmUids == {Uid, Anonymous}

LlmPeriods == {<<2025, 7>>, <<2025, 13>>}

LlmArguments(tool) ==
    IF tool \in {"aggregate_user_monthly_data", "get_category_trends"}
    THEN {[uid |-> u, year |-> p[1], month |-> p[2]] : u \in LlmUids, p \in LlmPeriods}
    ELSE {[uid |-> u] : u \in LlmUids}

\* the text of a final reply of the model
LlmTexts == {"{...}"}

\* db.collection("users").document(uid).collection(...)
TransactionsOf(uid) == IF uid = Uid THEN transactions ELSE <<>>

AnalyticsOf(uid) == IF uid = Uid THEN analytics ELSE <<>>

\* The agent fills its instruction from the session state and sends it, with
\* the function responses so far, to the model.
LlmRequest ==
    /\ Running
    /\ llm_flow.at = "request"
    /\ LET agent == SubAgents[sub_agent]
       IN  llm_flow' =
             IF \A k \in agent.placeholders : HasKey(session_state, k)
             THEN [at |-> "reply", calls |-> llm_flow.calls,
                   instruction |-> [k \in agent.placeholders |->
                                       DictGet(session_state, k, "")]]
             ELSE [at |-> "raised", error |-> "KeyError"]
    /\ UNCHANGED <<transactions, analytics, dashboard_metrics, trend_insights,
                   recurring_expenses, spending_anomalies, time_slot_breakdown,
                   sub_agent, session_state, ingestion, tool_runs>>

\* The model's reply asks for a call of the agent's tool.
LlmFunctionCall ==
    /\ Running
    /\ llm_flow.at = "reply"
    /\ llm_flow.calls < MaxToolCalls
    /\ \E tool \in SubAgents[sub_agent].tools :
         \E args \in LlmArguments(tool) :
            llm_flow' = [at |-> "function_call", calls |-> llm_flow.calls,
                         tool |-> tool, args |-> args]
    /\ UNCHANGED <<transactions, analytics, dashboard_metrics, trend_insights,
                   recurring_expenses, spending_anomalies, time_slot_breakdown,
                   sub_agent, session_state, ingestion, tool_runs>>

\* the agent is to call `tool`
Calls(tool) == Running /\ llm_flow.at = "function_call" /\ llm_flow.tool = tool

\* After the tool: its return is the function response of the next request; an
\* exception ends the run.
AfterTool(result) ==
    IF "raised" \in DOMAIN result THEN [at |-> "raised", error |-> result.raised]
    ELSE [at |-> "request", calls |-> llm_flow.calls + 1]

AggregatorToolCall ==
    /\ Calls("aggregate_user_monthly_data")
    /\ LET args == llm_flow.args
           Return(result) == /\ dashboard_metrics' = result
                             /\ llm_flow' = AfterTool(result)
       IN  Return(aggregate_user_monthly_data(args.uid, TransactionsOf(args.uid),
                                              args.year, args.month))
    /\ UNCHANGED <<transactions, analytics, trend_insights, recurring_expenses,
                   spending_anomalies, time_slot_breakdown, sub_agent, session_state,
                   ingestion, tool_runs>>

TrendToolCall ==
    /\ Calls("get_category_trends")
    /\ LET args  == llm_flow.args
           store == AnalyticsOf(args.uid)
           prev  == PreviousPeriod(args.year, args.month)
           Return(result) == /\ trend_insights' = result
                             /\ llm_flow' = AfterTool(result)
       IN  \E order \in Orderings(
                 AllCategories(CategoryTotalsOf(GetDoc(store, args.year, args.month)),
                               CategoryTotalsOf(GetDoc(store, prev[1], prev[2])))) :
             Return(get_category_trends(args.uid, store, args.year, args.month,
                                        order))
    /\ UNCHANGED <<transactions, analytics, dashboard_metrics, recurring_expenses,
                   spending_anomalies, time_slot_breakdown, sub_agent, session_state,
                   ingestion, tool_runs>>

RecurringToolCall ==
    /\ Calls("detect_recurring_expenses")
    /\ LET args == llm_flow.args
           Return(result) == /\ recurring_expenses' = result
                             /\ llm_flow' = AfterTool(result)
       IN  Return(detect_recurring_expenses(args.uid, TransactionsOf(args.uid)))
    /\ UNCHANGED <<transactions, analytics, dashboard_metrics, trend_insights,
                   spending_anomalies, time_slot_breakdown, sub_agent, session_state,
                   ingestion, tool_runs>>

AnomalyToolCall ==
    /\ Calls("detect_anomalies_for_user")
    /\ LET args == llm_flow.args
           Return(result) == /\ spending_anomalies' = result
                             /\ llm_flow' = AfterTool(result)
       IN  /\ Return(detect_anomalies_for_user(args.uid, TransactionsOf(args.uid)))
           /\ transactions' = IF args.uid = Uid THEN StoredAfterTotals(transactions)
                              ELSE transactions
    /\ UNCHANGED <<analytics, dashboard_metrics, trend_insights, recurring_expenses,
                   time_slot_breakdown, sub_agent, session_state, ingestion,
                   tool_runs>>

TimeSlotToolCall ==
    /\ Calls("analyze_time_slots")
    /\ LET args == llm_flow.args
           Return(result) == /\ time_slot_breakdown' = result
                             /\ llm_flow' = AfterTool(result)
       IN  Return(analyze_time_slots(args.uid, TransactionsOf(args.uid)))
    /\ UNCHANGED <<transactions, analytics, dashboard_metrics, trend_insights,
                   recurring_expenses, spending_anomalies, sub_agent, session_state,
                   ingestion, tool_runs>>

\* The model's reply is final: its text goes under output_key (a reply without
\* content writes nothing), and the SequentialAgent moves to the next sub-agent.
LlmFinalResponse ==
    /\ Running
    /\ llm_flow.at = "reply"
    /\ \/ \E text \in LlmTexts :
            session_state' = DictSet(session_state, SubAgents[sub_agent].output_key, text)
       \/ session_state' = session_state
    /\ sub_agent' = sub_agent + 1
    /\ llm_flow' = [at |-> "request", calls |-> 0]
    /\ UNCHANGED <<transactions, analytics, dashboard_metrics, trend_insights,
                   recurring_expenses, spending_anomalies, time_slot_breakdown,
                   ingestion, tool_runs>>

\* Stores for the pipeline: two receipts of June and July, or the six receipts
\* of SpikeBodies, and the snapshots of EngineSnapshots.
PipelineStores ==
    { Collection(<<Body(JuneNight,
                        CategorySummaryOf(<<Item(Milk, Groceries, 3)>>),
                        <<Item(Milk, Groceries, 3)>>),
                   Body(JulyMorning,
                        CategorySummaryOf(<<Item(Milk, Groceries, 2),
                                            Item(Soap, Household, 1)>>),
                        <<Item(Milk, Groceries, 2), Item(Soap, Household, 1)>>)>>),
      Collection(SpikeBodies) }

InitPipeline ==
    /\ transactions \in PipelineStores
    /\ analytics \in EngineSnapshots
    /\ NoResults
    /\ NothingStored

NextPipeline ==
    \/ LlmRequest
    \/ LlmFunctionCall
    \/ AggregatorToolCall
    \/ TrendToolCall
    \/ RecurringToolCall
    \/ AnomalyToolCall
    \/ TimeSlotToolCall
    \/ LlmFinalResponse

SpecPipeline == InitPipeline /\ [][NextPipeline]_vars

---------------------------------------------------------------------------
(* wallet_creator.store_receipt_data                                       *)

UnknownStore == <<85,110,107,110,111,119,110,32,83,116,111,114,101>>  \* "Unknown Store"

\* structured_data, or the exception raised while it is built
StructuredData(receipt_data, user_id, receipt_id, timestamp) ==
    LET items == IF "items" \in DOMAIN receipt_data THEN receipt_data.items ELSE <<>>
    IN  IF \E k \in DOMAIN items : AmountRaises(items[k])
        THEN [raised |-> "ValueError"]
        ELSE [receipt_id |-> receipt_id,
              uid |-> user_id,
              timestamp |-> [str |-> Isoformat(timestamp)],
              merchant |-> IF "merchant" \in DOMAIN receipt_data
                           THEN receipt_data.merchant ELSE UnknownStore,
              category_summary |-> CategorySummaryOf(items),
              items |-> items]

\* except Exception as e: return {"status": "error", ...}
ErrorResult == [status |-> "error"]

\* Calls: a receipt with two items of one category and one of another, one
\* with an item without category and one without amount, one without items,
\* one without merchant, one whose amounts are strs float() reads, and one
\* whose amount is a str it does not read.
NotANumber == <<110,47,97>>   \* "n/a"

Sixty       == <<54,48>>        \* "60"
SevenSpaced == <<32,55,32>>     \* " 7 "
Hundred     == <<49,101,50>>    \* "1e2"

ReceiptInputs ==
    { [merchant |-> Merchant,
       items |-> <<Item(Milk, Groceries, 2), Item(Soap, Household, 1),
                   Item(Rice, Groceries, 8)>>],
      [merchant |-> Merchant,
       items |-> <<[name |-> Milk, amount |-> 2],
                   [name |-> Soap, category |-> Household]>>],
      [merchant |-> Merchant],
      [items |-> <<Item(Milk, Groceries, 2)>>],
      [merchant |-> Merchant,
       items |-> <<[name |-> Milk, category |-> Groceries, amount_str |-> Sixty],
                   [name |-> Soap, category |-> Household, amount_str |-> Hundred],
                   [name |-> Rice, category |-> Groceries,
                    amount_str |-> SevenSpaced]>>],
      [merchant |-> Merchant,
       items |-> <<[name |-> Milk, category |-> Groceries,
                    amount_str |-> NotANumber]>>] }

ReceiptIds == {<<114,49>>, <<114,50>>}   \* "r1", "r2"

\* The call runs from its entry to structured_data (lines 56-80): the
\* receipt_id is a fresh uuid prefix and the timestamp the time of the call.
\* An exception raised on the way (float() of an amount) is caught by the
\* except clause and the call returns at once; otherwise the call stands
\* before its first write.  `found` keeps the two collections as the call
\* found them.
StoreReceiptCall ==
    /\ store_call.at \in {"idle", "returned"}
    /\ \E receipt_data \in ReceiptInputs, receipt_id \in ReceiptIds :
          LET found == [receipts |-> receipts, user_receipts |-> user_receipts]
              Built(structured_data) ==
                  IF "raised" \in DOMAIN structured_data
                  THEN /\ store_result' = ErrorResult
                       /\ store_call' = [at |-> "returned", found |-> found]
                  ELSE /\ store_result' = NotRun
                       /\ store_call' = [at |-> "set_receipt", found |-> found,
                                         receipt_id |-> receipt_id,
                                         structured_data |-> structured_data]
          IN  Built(StructuredData(receipt_data, Uid, receipt_id, AnomalyTimestamp))
    /\ UNCHANGED <<transactions, analytics, dashboard_metrics, trend_insights,
                   recurring_expenses, spending_anomalies, time_slot_breakdown,
                   receipts, user_receipts, pipeline, tool_runs>>

\* db.collection("receipts").document(receipt_id).set(structured_data): the
\* document is written, or the write raises and the except clause returns
\* the error
SetReceipt ==
    /\ store_call.at = "set_receipt"
    /\ \/ /\ receipts' = DictSet(receipts, store_call.receipt_id,
                                  store_call.structured_data)
          /\ store_call' = [store_call EXCEPT !.at = "set_user_receipt"]
          /\ UNCHANGED store_result
       \/ /\ store_result' = ErrorResult
          /\ store_call' = [at |-> "returned", found |-> store_call.found]
          /\ UNCHANGED receipts
    /\ UNCHANGED <<transactions, analytics, dashboard_metrics, trend_insights,
                   recurring_expenses, spending_anomalies, time_slot_breakdown,
                   user_receipts, pipeline, tool_runs>>

\* db.collection("users").document(user_id).collection("receipts")
\* .document(receipt_id).set(structured_data) and the return of the success
\* record, or the write raises and the except clause returns the error
SetUserReceipt ==
    /\ store_call.at = "set_user_receipt"
    /\ \/ /\ user_receipts' = DictSet(user_receipts,
                                       <<Uid, store_call.receipt_id>>,
                                       store_call.structured_data)
          /\ store_result' = [status |-> "success",
                              receipt_id |-> store_call.receipt_id,
                              data |-> store_call.structured_data]
       \/ /\ store_result' = ErrorResult
          /\ UNCHANGED user_receipts
    /\ store_call' = [at |-> "returned", found |-> store_call.found]
    /\ UNCHANGED <<transactions, analytics, dashboard_metrics, trend_insights,
                   recurring_expenses, spending_anomalies, time_slot_breakdown,
                   receipts, pipeline, tool_runs>>

NextIngestion == StoreReceiptCall \/ SetReceipt \/ SetUserReceipt

InitIngestion ==
    /\ transactions = <<>>
    /\ analytics = <<>>
    /\ NoResults
    /\ NothingStored

SpecIngestion == InitIngestion /\ [][NextIngestion]_vars

---------------------------------------------------------------------------
(* Claims about the anomaly detector (checked under SpecAnomalies)         *)

\* n times the deviation of receipt i's item total from the mean item total
DevTimesN(i) ==
    Len(transactions) * ItemTotal(transactions[i])
      - SumSeq([k \in DOMAIN transactions |-> ItemTotal(transactions[k])])

\* total_i > mean + 2 * s, s the sample deviation sqrt(sum_k (x_k - mean)^2 / (n-1)):
\* with D_k = n * (x_k - mean), D_i > 0 and (n-1) * D_i^2 > 2^2 * sum_k D_k^2
AboveTwoSigma(i) ==
    /\ DevTimesN(i) > 0
    /\ (Len(transactions) - 1) * DevTimesN(i) * DevTimesN(i)
         > 4 * SumSeq([k \in DOMAIN transactions |-> DevTimesN(k) * DevTimesN(k)])

ListedAsAnomaly(i) ==
    /\ "anomalies" \in DOMAIN spending_anomalies
    /\ \E j \in DOMAIN spending_anomalies.anomalies :
          spending_anomalies.anomalies[j].receipt_id = transactions[i].receipt_id

\* C1: with at least 2 receipts, a receipt is listed in `anomalies` if and only
\* if its item total is strictly greater than the mean of all item totals plus
\* twice their sample (N-1) standard deviation.
C1_AnomalyIffAboveTwoSigma ==
    (HasRun(spending_anomalies) /\ Len(transactions) >= 2) =>
        \A i \in DOMAIN transactions : ListedAsAnomaly(i) <=> AboveTwoSigma(i)

\* a history in which one receipt is listed and another is not
C1_Witness ==
    /\ HasRun(spending_anomalies)
    /\ Len(transactions) >= 2
    /\ \E i, j \in DOMAIN transactions :
          ListedAsAnomaly(i) /\ AboveTwoSigma(i) /\ ~ListedAsAnomaly(j)

\* C2: fewer than 2 receipts give the insufficient-data sentinel (a message, no
\* `anomalies`), returned and not raised; 2 or more give a report with `anomalies`.
C2_SentinelBelowTwoReceipts ==
    HasRun(spending_anomalies) =>
        IF Len(transactions) < 2
        THEN /\ Returned(spending_anomalies)
             /\ DOMAIN spending_anomalies = {"message"}
        ELSE /\ Returned(spending_anomalies)
             /\ "anomalies" \in DOMAIN spending_anomalies
             /\ "message" \notin DOMAIN spending_anomalies

\* the detector has answered a history of exactly one receipt with the sentinel
C2_Witness ==
    /\ Len(transactions) = 1
    /\ spending_anomalies = NotEnoughDataMessage

---------------------------------------------------------------------------
(* Claims about the recurring-expense detector (checked under SpecRecurring) *)

\* the identity keys of the items of the history
StoredKeys ==
    UNION { {ItemKey(transactions[i].items[j]) : j \in DOMAIN transactions[i].items} :
              i \in DOMAIN transactions }

\* the calendar months (year, month) of the receipts holding an item with key k
MonthsOfKey(k) ==
    { <<transactions[i].timestamp.year, transactions[i].timestamp.month>> :
        i \in { r \in DOMAIN transactions :
                  \E j \in DOMAIN transactions[r].items :
                      ItemKey(transactions[r].items[j]) = k } }

\* how many items of the history have key k
OccurrencesOfKey(k) ==
    SumSeq([i \in DOMAIN transactions |->
              Cardinality({j \in DOMAIN transactions[i].items :
                              ItemKey(transactions[i].items[j]) = k})])

ReportedKeys ==
    IF "recurring_items" \in DOMAIN recurring_expenses
    THEN { <<recurring_expenses.recurring_items[i].name,
             recurring_expenses.recurring_items[i].category>> :
             i \in DOMAIN recurring_expenses.recurring_items }
    ELSE {}

\* C3: a key (name, category) is in `recurring_items` if and only if items with
\* that key occur in receipts of 2 or more distinct months; a key of exactly one
\* month is never output, however often it occurs in that month.
C3_RecurringIffTwoMonths ==
    HasRun(recurring_expenses) =>
        /\ Returned(recurring_expenses)
        /\ \A k \in StoredKeys \cup ReportedKeys :
              k \in ReportedKeys <=> Cardinality(MonthsOfKey(k)) >= 2

\* one key is reported, and another that occurs in a single month is not
C3_Witness ==
    /\ HasRun(recurring_expenses)
    /\ ReportedKeys # {}
    /\ \E k \in StoredKeys : Cardinality(MonthsOfKey(k)) = 1 /\ k \notin ReportedKeys

\* a key occurring twice within one month and in no other is not reported
C3_WitnessSameMonth ==
    /\ HasRun(recurring_expenses)
    /\ \E k \in StoredKeys :
          /\ Cardinality(MonthsOfKey(k)) = 1
          /\ OccurrencesOfKey(k) >= 2
          /\ k \notin ReportedKeys

---------------------------------------------------------------------------
(* Claims about the time-slot analyzer (checked under SpecTimeSlots)       *)

RECURSIVE HoursOf(_)
\* the hours of day the timestamps of txs denote, in order
HoursOf(txs) ==
    IF txs = <<>> THEN <<>>
    ELSE <<AsDatetime(txs[1].timestamp).hour>> \o HoursOf(Tail(txs))

\* the hour of day a stored timestamp denotes
HourOfReceipt(i) == AsDatetime(transactions[i].timestamp).hour

Morning(h)   == 5 <= h /\ h < 12
Afternoon(h) == 12 <= h /\ h < 17
Evening(h)   == 17 <= h /\ h < 21
Night(h)     == h >= 21 \/ h < 5

\* the slots the claim assigns to hour h
ClaimedSlots(h) ==
    {s \in {"morning"} : Morning(h)} \cup {s \in {"afternoon"} : Afternoon(h)}
      \cup {s \in {"evening"} : Evening(h)} \cup {s \in {"night"} : Night(h)}

\* the keys of slot_summary
SlotKeys ==
    IF "slot_summary" \in DOMAIN time_slot_breakdown
    THEN Range(DictKeys(time_slot_breakdown.slot_summary))
    ELSE {}

\* C4: a receipt falls into exactly one slot, fixed by the hour h of its
\* timestamp: morning iff 5 <= h < 12, afternoon iff 12 <= h < 17, evening iff
\* 17 <= h < 21, night iff h >= 21 or h < 5; the four slots are disjoint and
\* cover 0..23.
C4_OneSlotPerHour ==
    HasRun(time_slot_breakdown) =>
        LET hours == HoursOf(transactions)
        IN  /\ Returned(time_slot_breakdown)
            /\ \A i \in DOMAIN transactions :
                  /\ Cardinality(ClaimedSlots(hours[i])) = 1
                  /\ ClaimedSlots(hours[i]) \subseteq SlotKeys
            /\ SlotKeys = UNION {ClaimedSlots(hours[i]) : i \in DOMAIN transactions}
            /\ \A s \in SlotKeys :
                  DictGet(time_slot_breakdown.slot_summary, s, 0)
                    = SumSeq([i \in DOMAIN transactions |->
                                IF s \in ClaimedSlots(hours[i])
                                THEN ItemTotal(transactions[i]) ELSE 0])

\* receipts at the boundary hours 5 and 21 have been put into morning and night
C4_Witness ==
    /\ HasRun(time_slot_breakdown)
    /\ Len(transactions) = 2
    /\ HourOfReceipt(1) = 5 /\ HourOfReceipt(2) = 21
    /\ ItemTotal(transactions[1]) > 0 /\ ItemTotal(transactions[2]) > 0
    /\ SlotKeys = {"morning", "night"}

\* C5: the values of slot_summary add up to the sum of all item amounts of all
\* receipts (each receipt's item total went into one slot and no other).
C5_SlotTotalsAddUp ==
    HasRun(time_slot_breakdown) =>
        /\ Returned(time_slot_breakdown)
        /\ SumSeq(DictValues(time_slot_breakdown.slot_summary))
             = SumSeq([i \in DOMAIN transactions |-> ItemTotal(transactions[i])])

\* two receipts with items have been added into the same slot
C5_Witness ==
    /\ HasRun(time_slot_breakdown)
    /\ Len(transactions) = 2
    /\ ItemTotal(transactions[1]) > 0 /\ ItemTotal(transactions[2]) > 0
    /\ Cardinality(SlotKeys) = 1
    /\ SumSeq(DictValues(time_slot_breakdown.slot_summary)) = 200

---------------------------------------------------------------------------
(* Claims about the aggregator (checked under SpecAggregator)              *)

\* the (year, month) the report in dashboard_metrics was asked for
ReportedPeriod ==
    CHOOSE p \in CallPeriods : PeriodLabel(p[1], p[2]) = dashboard_metrics.month

\* the receipts of that calendar month
MonthReceipts ==
    LET period == ReportedPeriod
    IN  { i \in DOMAIN transactions :
            /\ IsDatetime(transactions[i].timestamp)
            /\ transactions[i].timestamp.year = period[1]
            /\ transactions[i].timestamp.month = period[2] }

\* what receipt i's category_summary holds for cat (0 when absent)
SummaryAmount(i, cat) == DictGet(transactions[i].category_summary, cat, 0)

\* the sum of the category_summary entries for cat over the month's receipts
MonthCategoryTotal(cat) ==
    LET month == MonthReceipts
    IN  SumSeq([i \in DOMAIN transactions |->
                  IF i \in month THEN SummaryAmount(i, cat) ELSE 0])

\* the unrounded total_spend: all category_summary values of the month's receipts
MonthTotal ==
    LET month == MonthReceipts
    IN  SumSeq([i \in DOMAIN transactions |->
                  IF i \in month
                  THEN SumSeq(DictValues(transactions[i].category_summary)) ELSE 0])

MonthCategories ==
    UNION { Range(DictKeys(transactions[i].category_summary)) : i \in MonthReceipts }

BreakdownKeys == Range(DictKeys(dashboard_metrics.category_breakdown))

BreakdownAmount(cat) == DictGet(dashboard_metrics.category_breakdown, cat, 0)

\* the place of cat in category_breakdown (its insertion order)
BreakdownIndex(cat) ==
    CHOOSE i \in DOMAIN dashboard_metrics.category_breakdown :
        dashboard_metrics.category_breakdown[i][1] = cat

\* C6: the values of category_breakdown add up to the unrounded total_spend, and
\* each category's value is the sum of that category's category_summary entries
\* over the receipts of the month.
C6_BreakdownAddsUp ==
    HasRun(dashboard_metrics) =>
        /\ Returned(dashboard_metrics)
        /\ SumSeq(DictValues(dashboard_metrics.category_breakdown)) = MonthTotal
        /\ dashboard_metrics.total_spend = 100 * MonthTotal
        /\ BreakdownKeys = MonthCategories
        /\ Cardinality(BreakdownKeys) = Len(dashboard_metrics.category_breakdown)
        /\ \A cat \in BreakdownKeys : BreakdownAmount(cat) = MonthCategoryTotal(cat)

\* two receipts of the month share a category, and the store holds a third
\* receipt outside the month
C6_Witness ==
    /\ HasRun(dashboard_metrics)
    /\ Cardinality(MonthReceipts) = 2
    /\ Len(transactions) = 3
    /\ \E cat \in BreakdownKeys :
          /\ \A i \in MonthReceipts : SummaryAmount(i, cat) > 0
          /\ BreakdownAmount(cat) = 2
    /\ Cardinality(BreakdownKeys) = 2

\* C7: average_per_receipt is total_spend / receipt_count (to the report's two
\* decimal places) when receipt_count > 0, and 0.0 when receipt_count = 0; with
\* no receipt the call returns a complete, empty report and does not fail.
C7_AveragePerReceipt ==
    HasRun(dashboard_metrics) =>
        /\ Returned(dashboard_metrics)
        /\ dashboard_metrics.receipt_count = Cardinality(MonthReceipts)
        /\ IF dashboard_metrics.receipt_count > 0
           THEN 2 * Abs(dashboard_metrics.average_per_receipt
                          * dashboard_metrics.receipt_count - 100 * MonthTotal)
                  <= dashboard_metrics.receipt_count
           ELSE /\ dashboard_metrics.average_per_receipt = 0
                /\ dashboard_metrics.total_spend = 0
                /\ dashboard_metrics.category_breakdown = <<>>
                /\ dashboard_metrics.top_categories = <<>>
                /\ dashboard_metrics.daily_series = <<>>

\* a month without receipts has been aggregated while the store holds receipts
C7_Witness ==
    /\ HasRun(dashboard_metrics)
    /\ Len(transactions) > 0
    /\ dashboard_metrics.receipt_count = 0
    /\ dashboard_metrics.average_per_receipt = 0

\* an average that is exact has been reported: 3 over 2 receipts is 1.50
C7_WitnessAverage ==
    /\ HasRun(dashboard_metrics)
    /\ dashboard_metrics.receipt_count = 2
    /\ MonthTotal = 3
    /\ dashboard_metrics.average_per_receipt = 150

\* an average that needed rounding has been reported: 4 over 3 receipts is 1.33
C7_WitnessRounded ==
    /\ HasRun(dashboard_metrics)
    /\ dashboard_metrics.receipt_count = 3
    /\ MonthTotal = 4
    /\ dashboard_metrics.average_per_receipt = 133

\* C8: top_categories has exactly min(5, number of categories of
\* category_breakdown) entries, none twice, each a key of category_breakdown.
C8_TopCategoriesLength ==
    HasRun(dashboard_metrics) =>
        /\ Returned(dashboard_metrics)
        /\ Len(dashboard_metrics.top_categories)
             = IF Cardinality(BreakdownKeys) < 5 THEN Cardinality(BreakdownKeys) ELSE 5
        /\ Cardinality(Range(dashboard_metrics.top_categories))
             = Len(dashboard_metrics.top_categories)
        /\ Range(dashboard_metrics.top_categories) \subseteq BreakdownKeys

\* six categories have been aggregated and five of them listed
C8_Witness ==
    /\ HasRun(dashboard_metrics)
    /\ Cardinality(BreakdownKeys) = 6
    /\ Len(dashboard_metrics.top_categories) = 5

\* C9: top_categories is in descending order of category_breakdown amount, equal
\* amounts in the order of first insertion into category_breakdown, and no
\* category left out has a strictly larger amount than a listed one.
C9_TopCategoriesOrder ==
    HasRun(dashboard_metrics) =>
        /\ Returned(dashboard_metrics)
        /\ \A i, j \in DOMAIN dashboard_metrics.top_categories :
              i < j =>
                LET a == dashboard_metrics.top_categories[i]
                    b == dashboard_metrics.top_categories[j]
                IN  /\ BreakdownAmount(a) >= BreakdownAmount(b)
                    /\ BreakdownAmount(a) = BreakdownAmount(b)
                         => BreakdownIndex(a) < BreakdownIndex(b)
        /\ \A out \in BreakdownKeys \ Range(dashboard_metrics.top_categories) :
              \A in \in Range(dashboard_metrics.top_categories) :
                  BreakdownAmount(out) <= BreakdownAmount(in)

\* six categories inserted in an order that starts elsewhere than the catalogue:
\* a larger amount inserted late is listed first, two equal amounts are listed
\* in insertion order, and a category is left out
C9_Witness ==
    /\ HasRun(dashboard_metrics)
    /\ Cardinality(BreakdownKeys) = 6
    /\ dashboard_metrics.category_breakdown[1][1] # Groceries
    /\ \E i, j \in DOMAIN dashboard_metrics.top_categories :
          /\ i < j
          /\ BreakdownAmount(dashboard_metrics.top_categories[i])
               = BreakdownAmount(dashboard_metrics.top_categories[j])
    /\ \E i, j \in DOMAIN dashboard_metrics.top_categories :
          /\ i < j
          /\ BreakdownIndex(dashboard_metrics.top_categories[i])
               > BreakdownIndex(dashboard_metrics.top_categories[j])

---------------------------------------------------------------------------
(* Claims about the trend analyzer (checked under SpecTrends)              *)

\* the (year, month) the report in trend_insights was asked for
TrendPeriod ==
    CHOOSE p \in TrendPeriods : PeriodLabel(p[1], p[2]) = trend_insights.month

\* the calendar month before it: the one whose month count is one less
MonthBefore(p) ==
    CHOOSE q \in (p[1] - 1 .. p[1]) \X (1..12) : 12 * q[1] + q[2] = 12 * p[1] + p[2] - 1

\* the amount the snapshot of period p holds for cat; 0 when the snapshot, its
\* category_totals or the category is absent
SnapshotAmount(p, cat) ==
    LET doc == DictGet(analytics, PeriodLabel(p[1], p[2]), EmptyDoc)
    IN  IF "category_totals" \in DOMAIN doc
        THEN DictGet(doc.category_totals, cat, 0)
        ELSE 0

TrendCategories ==
    IF "trend_summary" \in DOMAIN trend_insights
    THEN Range(DictKeys(trend_insights.trend_summary))
    ELSE {}

TrendOf(cat) == DictGet(trend_insights.trend_summary, cat, EmptyDoc)

\* C10: for a category whose previous amount is 0 or absent, percent_change is
\* 100.0 when the current amount is non-zero and 0.0 when it is 0 too; no
\* division fault occurs.
C10_PercentChangeFromZero ==
    HasRun(trend_insights) =>
        /\ Returned(trend_insights)
        /\ \A cat \in TrendCategories :
              SnapshotAmount(MonthBefore(TrendPeriod), cat) = 0 =>
                  TrendOf(cat).percent_change
                    = IF SnapshotAmount(TrendPeriod, cat) # 0 THEN 10000 ELSE 0

\* a report over a January, with one category new (previous absent in the
\* December snapshot) and one at 0 in both months
C10_Witness ==
    /\ HasRun(trend_insights)
    /\ TrendPeriod = <<2025, 1>>
    /\ HasKey(analytics, PeriodLabel(2024, 12))
    /\ \E c1, c2 \in TrendCategories :
          /\ SnapshotAmount(<<2024, 12>>, c1) = 0
          /\ SnapshotAmount(<<2025, 1>>, c1) = 150
          /\ TrendOf(c1).percent_change = 10000
          /\ SnapshotAmount(<<2024, 12>>, c2) = 0
          /\ SnapshotAmount(<<2025, 1>>, c2) = 0
          /\ TrendOf(c2).percent_change = 0

\* C11: for a category whose previous amount is not 0, change is current -
\* previous and percent_change is change / previous * 100 (both to the report's
\* two decimal places), a category absent from a period counting as 0 there; a
\* category with no current amount has change = -previous and percent_change
\* = -100.
C11_ChangeAndPercent ==
    HasRun(trend_insights) =>
        /\ Returned(trend_insights)
        /\ \A cat \in TrendCategories :
              LET prev == SnapshotAmount(MonthBefore(TrendPeriod), cat)
                  curr == SnapshotAmount(TrendPeriod, cat)
              IN  prev # 0 =>
                    /\ TrendOf(cat).previous = 100 * prev
                    /\ TrendOf(cat).current = 100 * curr
                    /\ TrendOf(cat).change = 100 * (curr - prev)
                    /\ 2 * Abs(TrendOf(cat).percent_change * prev
                                 - 100 * 100 * (curr - prev)) <= Abs(prev)
                    /\ curr = 0 =>
                          /\ TrendOf(cat).change = -(100 * prev)
                          /\ TrendOf(cat).percent_change = -10000

\* a report with a fall that needed rounding (150 to 100 is -33.33%) and a
\* category that exists only in the previous snapshot (-100%)
C11_Witness ==
    /\ HasRun(trend_insights)
    /\ \E c1, c2 \in TrendCategories :
          /\ SnapshotAmount(MonthBefore(TrendPeriod), c1) = 150
          /\ SnapshotAmount(TrendPeriod, c1) = 100
          /\ TrendOf(c1).change = -5000
          /\ TrendOf(c1).percent_change = -3333
          /\ SnapshotAmount(MonthBefore(TrendPeriod), c2) = 100
          /\ ~HasKey(CategoryTotalsOf(GetDoc(analytics, TrendPeriod[1], TrendPeriod[2])), c2)
          /\ TrendOf(c2).change = -10000
          /\ TrendOf(c2).percent_change = -10000

\* a rise from 100 to 150 has been reported as +50.00%
C11_WitnessRise ==
    /\ HasRun(trend_insights)
    /\ \E cat \in TrendCategories :
          /\ SnapshotAmount(MonthBefore(TrendPeriod), cat) = 100
          /\ SnapshotAmount(TrendPeriod, cat) = 150
          /\ TrendOf(cat).change = 5000
          /\ TrendOf(cat).percent_change = 5000

\* the category keys of the category_totals of the snapshot of period p (none
\* when the snapshot or its category_totals is absent)
SnapshotKeys(p) ==
    LET doc == DictGet(analytics, PeriodLabel(p[1], p[2]), EmptyDoc)
    IN  IF "category_totals" \in DOMAIN doc
        THEN {doc.category_totals[i][1] : i \in DOMAIN doc.category_totals}
        ELSE {}

\* C12: the keys of trend_summary are exactly the category keys of the current
\* period's category_totals together with those of the previous period's; a
\* category of one period only has an entry, and each key has one entry.
C12_TrendKeysAreUnion ==
    HasRun(trend_insights) =>
        /\ Returned(trend_insights)
        /\ TrendCategories
             = SnapshotKeys(TrendPeriod) \cup SnapshotKeys(MonthBefore(TrendPeriod))
        /\ Len(trend_insights.trend_summary) = Cardinality(TrendCategories)

\* one category of the report is in the current snapshot only, another in the
\* previous snapshot only
C12_Witness ==
    /\ HasRun(trend_insights)
    /\ \E c1, c2 \in TrendCategories :
          /\ c1 \in SnapshotKeys(TrendPeriod) \ SnapshotKeys(MonthBefore(TrendPeriod))
          /\ c2 \in SnapshotKeys(MonthBefore(TrendPeriod)) \ SnapshotKeys(TrendPeriod)

\* the previous period the claim names for period p
ClaimedPrevious(p) == IF p[2] > 1 THEN <<p[1], p[2] - 1>> ELSE <<p[1] - 1, 12>>

\* C13: for a call for (year, month), month in 1..12, the previous period is
\* (year, month - 1) when month > 1 and (year - 1, 12) when month = 1, its month
\* is in 1..12, and the report's current amounts are those of the snapshot of
\* (year, month) and its previous amounts those of the previous period's.
C13_PreviousPeriod ==
    HasRun(trend_insights) =>
        /\ Returned(trend_insights)
        /\ LET p == TrendPeriod
               q == ClaimedPrevious(TrendPeriod)
           IN  /\ p[2] \in 1..12 /\ q[2] \in 1..12
               /\ 12 * q[1] + q[2] = 12 * p[1] + p[2] - 1
               /\ PreviousPeriod(p[1], p[2]) = q
               /\ TrendCategories = SnapshotKeys(p) \cup SnapshotKeys(q)
               /\ \A cat \in TrendCategories :
                     /\ TrendOf(cat).current = 100 * SnapshotAmount(p, cat)
                     /\ TrendOf(cat).previous = 100 * SnapshotAmount(q, cat)

\* a January report whose previous amounts come from the December snapshot of
\* the year before, which differs from the January and February snapshots
C13_Witness ==
    /\ HasRun(trend_insights)
    /\ TrendPeriod = <<2025, 1>>
    /\ \E cat \in TrendCategories :
          /\ SnapshotAmount(<<2024, 12>>, cat) = 150
          /\ SnapshotAmount(<<2025, 1>>, cat) = 100
          /\ SnapshotAmount(<<2025, 2>>, cat) = 0
          /\ TrendOf(cat).previous = 15000
          /\ TrendOf(cat).current = 10000

\* a February report whose previous amounts come from the January snapshot
C13_WitnessFebruary ==
    /\ HasRun(trend_insights)
    /\ TrendPeriod = <<2025, 2>>
    /\ \E cat \in TrendCategories :
          /\ SnapshotAmount(<<2024, 12>>, cat) = 0
          /\ SnapshotAmount(<<2025, 1>>, cat) = 150
          /\ SnapshotAmount(<<2025, 2>>, cat) = 100
          /\ TrendOf(cat).previous = 15000
          /\ TrendOf(cat).current = 10000

\* the analytics collection holds no document for the period before the
\* reported one
PreviousSnapshotMissing ==
    LET q == MonthBefore(TrendPeriod)
    IN  ~HasKey(analytics, PeriodLabel(q[1], q[2]))

\* C14 as stated: when the previous month's snapshot is missing the call returns
\* a report, and every category of the report shows percent_change 100.0.
C14_AllCategoriesHundred ==
    (HasRun(trend_insights) /\ PreviousSnapshotMissing) =>
        /\ Returned(trend_insights)
        /\ \A cat \in TrendCategories : TrendOf(cat).percent_change = 10000

\* C14 amended: when the previous month's snapshot is missing the call returns a
\* report over the categories of the current snapshot, every previous amount is
\* 0, and percent_change is 100.0 for a category whose current amount is not 0
\* and 0.0 for a category whose current amount is 0.
C14_MissingPreviousIsEmpty ==
    (HasRun(trend_insights) /\ PreviousSnapshotMissing) =>
        /\ Returned(trend_insights)
        /\ TrendCategories = SnapshotKeys(TrendPeriod)
        /\ \A cat \in TrendCategories :
              /\ TrendOf(cat).previous = 0
              /\ TrendOf(cat).percent_change
                   = IF SnapshotAmount(TrendPeriod, cat) # 0 THEN 10000 ELSE 0

\* without a previous snapshot, a category with current amount 150 shows 100.0
\* and one with current amount 0 shows 0.0
C14_Witness ==
    /\ HasRun(trend_insights)
    /\ PreviousSnapshotMissing
    /\ \E c1, c2 \in TrendCategories :
          /\ SnapshotAmount(TrendPeriod, c1) = 150
          /\ TrendOf(c1).percent_change = 10000
          /\ SnapshotAmount(TrendPeriod, c2) = 0
          /\ TrendOf(c2).percent_change = 0

---------------------------------------------------------------------------
(* Further claims about the recurring-expense detector (SpecRecurring)     *)

\* the group key of entry i of recurring_items
EntryKey(i) ==
    <<recurring_expenses.recurring_items[i].name,
      recurring_expenses.recurring_items[i].category>>

\* `months` lists the calendar months of M as YYYY-MM, each once, earliest first
ListsMonthsAscending(months, M) ==
    \E f \in [DOMAIN months -> M] :
        /\ \A i \in DOMAIN months : months[i] = PeriodLabel(f[i][1], f[i][2])
        /\ \A i, j \in DOMAIN months :
              i < j => 12 * f[i][1] + f[i][2] < 12 * f[j][1] + f[j][2]
        /\ {f[i] : i \in DOMAIN months} = M

\* C15: months_appeared of every output group is sorted ascending, names no
\* month twice, has at least 2 months, and is exactly the set of YYYY-MM months
\* of the receipts that hold an item with the group's key.
C15_MonthsAppeared ==
    HasRun(recurring_expenses) =>
        /\ Returned(recurring_expenses)
        /\ \A i \in DOMAIN recurring_expenses.recurring_items :
              LET months == recurring_expenses.recurring_items[i].months_appeared
              IN  /\ Len(months) >= 2
                  /\ Cardinality(Range(months)) = Len(months)
                  /\ ListsMonthsAscending(months, MonthsOfKey(EntryKey(i)))

\* a group met first in a January receipt and then in a receipt of the December
\* before is reported with the December first
C15_Witness ==
    /\ HasRun(recurring_expenses)
    /\ Len(transactions) = 2
    /\ transactions[1].timestamp.month = 1
    /\ transactions[2].timestamp.month = 12
    /\ \E i \in DOMAIN recurring_expenses.recurring_items :
          recurring_expenses.recurring_items[i].months_appeared
            = <<PeriodLabel(2024, 12), PeriodLabel(2025, 1)>>

\* the sum of the amounts of the items of the history with key k
AmountOfKey(k) ==
    SumSeq([i \in DOMAIN transactions |->
              SumSeq([j \in DOMAIN transactions[i].items |->
                        IF ItemKey(transactions[i].items[j]) = k
                        THEN transactions[i].items[j].amount ELSE 0])])

\* C16: total_amount of every output group is the sum of the amounts of all
\* items with the group's key in the history, and average_amount is that sum
\* divided by the number of those items (to the report's two decimal places);
\* that number is at least 1 and the division does not fault.
C16_TotalAndAverage ==
    HasRun(recurring_expenses) =>
        /\ Returned(recurring_expenses)
        /\ \A i \in DOMAIN recurring_expenses.recurring_items :
              LET entry == recurring_expenses.recurring_items[i]
                  total == AmountOfKey(EntryKey(i))
                  occurrences == OccurrencesOfKey(EntryKey(i))
              IN  /\ occurrences >= 1
                  /\ entry.total_amount = 100 * total
                  /\ 2 * Abs(entry.average_amount * occurrences - 100 * total)
                       <= occurrences

\* a group of three items in two months, two of them in one receipt: 185 over
\* 3 occurrences is reported as 61.67
C16_Witness ==
    /\ HasRun(recurring_expenses)
    /\ \E i \in DOMAIN recurring_expenses.recurring_items :
          /\ OccurrencesOfKey(EntryKey(i)) = 3
          /\ Cardinality(MonthsOfKey(EntryKey(i))) = 2
          /\ recurring_expenses.recurring_items[i].total_amount = 18500
          /\ recurring_expenses.recurring_items[i].average_amount = 6167

\* a label lower-cased and with its surrounding whitespace trimmed
Normalized(label) == Strip(Lower(label))

\* item j of receipt i normalizes to key k
InGroup(i, j, k) ==
    /\ Normalized(transactions[i].items[j].name) = k[1]
    /\ Normalized(transactions[i].items[j].category) = k[2]

\* the calendar months of the receipts holding an item of group k
MonthsOfGroup(k) ==
    { <<transactions[i].timestamp.year, transactions[i].timestamp.month>> :
        i \in { r \in DOMAIN transactions :
                  \E j \in DOMAIN transactions[r].items : InGroup(r, j, k) } }

\* the sum of the amounts of the items of group k
AmountOfGroup(k) ==
    SumSeq([i \in DOMAIN transactions |->
              SumSeq([j \in DOMAIN transactions[i].items |->
                        IF InGroup(i, j, k)
                        THEN transactions[i].items[j].amount ELSE 0])])

\* the normalized keys of all items of the history
GroupsOfHistory ==
    UNION { { <<Normalized(transactions[i].items[j].name),
                Normalized(transactions[i].items[j].category)>> :
                j \in DOMAIN transactions[i].items } : i \in DOMAIN transactions }

\* C17: two items are in the same group if and only if their names are equal
\* after lower-casing and trimming and their categories are too; items of one
\* name with different normalized categories are separate groups, and the name
\* and category of an output group are the normalized forms.
C17_GroupsByNormalizedKey ==
    HasRun(recurring_expenses) =>
        /\ Returned(recurring_expenses)
        /\ \A i, j \in DOMAIN recurring_expenses.recurring_items :
              EntryKey(i) = EntryKey(j) => i = j
        /\ \A k \in GroupsOfHistory :
              (\E i \in DOMAIN recurring_expenses.recurring_items : EntryKey(i) = k)
                <=> Cardinality(MonthsOfGroup(k)) >= 2
        /\ \A i \in DOMAIN recurring_expenses.recurring_items :
              /\ Normalized(EntryKey(i)[1]) = EntryKey(i)[1]
              /\ Normalized(EntryKey(i)[2]) = EntryKey(i)[2]
              /\ EntryKey(i) \in GroupsOfHistory
              /\ recurring_expenses.recurring_items[i].total_amount
                   = 100 * AmountOfGroup(EntryKey(i))

\* "Milk"/"groceries" and " milk"/"Groceries " of different months are reported
\* as the one group milk/groceries (60 + 65), and "Milk"/"Dairy" as another
C17_Witness ==
    /\ HasRun(recurring_expenses)
    /\ Len(transactions) = 2
    /\ Len(recurring_expenses.recurring_items) = 2
    /\ \E i, j \in DOMAIN recurring_expenses.recurring_items :
          /\ EntryKey(i) = <<Lower(Milk), Groceries>>
          /\ recurring_expenses.recurring_items[i].total_amount = 12500
          /\ EntryKey(j) = <<Lower(Milk), Lower(Dairy)>>
    /\ \E a, b \in DOMAIN transactions :
          /\ \E x \in DOMAIN transactions[a].items :
                /\ transactions[a].items[x].name = Milk
                /\ transactions[a].items[x].category = Groceries
          /\ \E y \in DOMAIN transactions[b].items :
                /\ transactions[b].items[y].name = MilkSpaced
                /\ transactions[b].items[y].category = GroceriesCapped

---------------------------------------------------------------------------
(* Claims about the five tools together (SpecEngine, SpecInterleaved)      *)

\* C22: a call never replaces the report of an earlier call with the same
\* arguments over the same stores by a different one: the reports of the
\* recurring-expense detector, the anomaly detector (its flagged receipts and
\* their order included) and the time-slot analyzer are equal, and so are two
\* aggregator reports of the same month and two trend reports of the same
\* month, the order of the keys of their dicts included (two equal reports
\* are written as the same bytes).
C22_Deterministic ==
    [][ /\ HasRun(recurring_expenses) => recurring_expenses' = recurring_expenses
        /\ HasRun(spending_anomalies) => spending_anomalies' = spending_anomalies
        /\ HasRun(time_slot_breakdown) => time_slot_breakdown' = time_slot_breakdown
        /\ HasRun(dashboard_metrics) =>
              /\ Returned(dashboard_metrics) /\ Returned(dashboard_metrics')
              /\ dashboard_metrics'.month = dashboard_metrics.month
                    => dashboard_metrics' = dashboard_metrics
        /\ HasRun(trend_insights) =>
              /\ Returned(trend_insights) /\ Returned(trend_insights')
              /\ trend_insights'.month = trend_insights.month
                    => trend_insights' = trend_insights
      ]_vars

\* the report a tool gives when it runs alone over the stores: get_doc finds
\* the two snapshots in users/{uid}/analytics
Alone(tool, run) ==
    IF tool = "aggregate_user_monthly_data"
    THEN {aggregate_user_monthly_data(Uid, transactions, run.year, run.month)}
    ELSE IF tool = "get_category_trends"
    THEN LET prev == PreviousPeriod(run.year, run.month)
         IN  { get_category_trends(Uid, analytics, run.year, run.month, order) :
                 order \in Orderings(
                     AllCategories(
                         CategoryTotalsOf(GetDoc(analytics, run.year, run.month)),
                         CategoryTotalsOf(GetDoc(analytics, prev[1], prev[2])))) }
    ELSE IF tool = "detect_recurring_expenses"
    THEN {detect_recurring_expenses(Uid, transactions)}
    ELSE IF tool = "detect_anomalies_for_user"
    THEN {detect_anomalies_for_user(Uid, transactions)}
    ELSE {analyze_time_slots(Uid, transactions)}

\* the report of each tool
ReportOf(tool) ==
    IF tool = "aggregate_user_monthly_data" THEN dashboard_metrics
    ELSE IF tool = "get_category_trends" THEN trend_insights
    ELSE IF tool = "detect_recurring_expenses" THEN recurring_expenses
    ELSE IF tool = "detect_anomalies_for_user" THEN spending_anomalies
    ELSE time_slot_breakdown

\* C23: however the steps of the five calls are interleaved, the report a
\* tool returns is the one it returns when it runs alone over the stores,
\* and until a tool returns nothing has been written where its report goes.
C23_NoOrderingDependency ==
    \A tool \in ToolNames :
        IF RunOf(tool).at = "returned"
        THEN ReportOf(tool) \in Alone(tool, RunOf(tool))
        ELSE ReportOf(tool) = NotRun

\* the aggregator, the recurring-expense detector and the time-slot analyzer
\* have started and returned while the anomaly detector was between its first
\* and its second document and the trend analyzer between its two snapshots
C23_Witness ==
    /\ Len(transactions) = 2
    /\ RunOf("detect_anomalies_for_user").at = "stream"
    /\ Len(RunOf("detect_anomalies_for_user").docs) = 1
    /\ RunOf("get_category_trends").at = "get_last"
    /\ RunOf("aggregate_user_monthly_data").at = "returned"
    /\ RunOf("detect_recurring_expenses").at = "returned"
    /\ RunOf("analyze_time_slots").at = "returned"
    /\ Returned(recurring_expenses)
    /\ recurring_expenses.recurring_items # <<>>
    /\ Returned(dashboard_metrics)
    /\ dashboard_metrics.receipt_count = 1

\* all five have returned, each after steps of the others
C23_WitnessAllReturned ==
    /\ \A tool \in ToolNames : RunOf(tool).at = "returned"
    /\ \A tool \in ToolNames : Returned(ReportOf(tool))
    /\ Len(transactions) = 2
    /\ "anomalies" \in DOMAIN spending_anomalies

\* C24: no call of any of the five tools changes a document of
\* users/{uid}/transactions or of users/{uid}/analytics; the total_spend the
\* anomaly detector attaches to a receipt stays out of the store.
C24_StoresUnchanged ==
    [][transactions' = transactions /\ analytics' = analytics]_vars

\* the anomaly detector has gone through six receipts with items and flagged
\* one; the trend analyzer has read two snapshots; the other three have run
C24_Witness ==
    /\ Len(transactions) = 6
    /\ Returned(spending_anomalies)
    /\ "anomalies" \in DOMAIN spending_anomalies
    /\ Len(spending_anomalies.anomalies) = 1
    /\ \A i \in DOMAIN transactions : "total_spend" \notin DOMAIN transactions[i]
    /\ Returned(trend_insights)
    /\ trend_insights.trend_summary # <<>>
    /\ Len(analytics) = 2
    /\ HasRun(dashboard_metrics)
    /\ HasRun(recurring_expenses)
    /\ HasRun(time_slot_breakdown)

\* the collection with every ISO-string timestamp replaced by the datetime it
\* denotes
Structured(txs) ==
    [i \in DOMAIN txs |-> [txs[i] EXCEPT !.timestamp = AsDatetime(@)]]

\* the time-slot analyzer alone: its report does not depend on the
\* representation of the timestamps
SlotsSameForBothRepresentations ==
    HasRun(time_slot_breakdown) =>
        /\ Returned(time_slot_breakdown)
        /\ time_slot_breakdown = analyze_time_slots(Uid, Structured(transactions))

\* C25: the aggregator, the recurring-expense detector, the anomaly detector
\* and the time-slot analyzer each return, without failing, the report they
\* return when every ISO-string timestamp of the store is replaced by the
\* equivalent datetime.
C25_SameReportForBothRepresentations ==
    /\ HasRun(dashboard_metrics) =>
          /\ Returned(dashboard_metrics)
          /\ \E p \in CallPeriods :
                dashboard_metrics =
                    aggregate_user_monthly_data(Uid, Structured(transactions), p[1], p[2])
    /\ HasRun(recurring_expenses) =>
          /\ Returned(recurring_expenses)
          /\ recurring_expenses = detect_recurring_expenses(Uid, Structured(transactions))
    /\ HasRun(spending_anomalies) =>
          /\ Returned(spending_anomalies)
          /\ spending_anomalies = detect_anomalies_for_user(Uid, Structured(transactions))
    /\ SlotsSameForBothRepresentations

---------------------------------------------------------------------------
(* Agreement of the totals (SpecDecimals)                                   *)

\* the sum of the amounts of all items of receipt r
ItemsAmount(r) == SumSeq([k \in DOMAIN r.items |-> r.items[k].amount])

\* the amounts of the items of receipt r labelled cat, in the order of the items
AmountsIn(r, cat) ==
    LET labelled == SelectSeq(r.items, LAMBDA item : item.category = cat)
    IN  [k \in DOMAIN labelled |-> labelled[k].amount]

\* the category_summary of r holds, for every category, the sum of the amounts
\* of the items of r labelled with it
SummaryAgrees(r) ==
    \A cat \in Range(DictKeys(r.category_summary))
                 \cup {r.items[k].category : k \in DOMAIN r.items} :
        DictGet(r.category_summary, cat, FloatZero(FALSE)) = FloatSum(AmountsIn(r, cat))

SummariesAgree == \A i \in DOMAIN transactions : SummaryAgrees(transactions[i])

\* the aggregator, the time-slot analyzer and the anomaly detector have been
\* called over the same receipts: every stored receipt is stamped with a
\* datetime of the month the aggregator was called for
SameReceiptSet ==
    /\ RunOf("aggregate_user_monthly_data").at = "returned"
    /\ RunOf("analyze_time_slots").at = "returned"
    /\ RunOf("detect_anomalies_for_user").at = "returned"
    /\ \A i \in DOMAIN transactions :
          /\ IsDatetime(transactions[i].timestamp)
          /\ StrfYearMonth(transactions[i].timestamp) =
                PeriodLabel(RunOf("aggregate_user_monthly_data").year,
                            RunOf("aggregate_user_monthly_data").month)

NobodyFails ==
    /\ Returned(dashboard_metrics)
    /\ Returned(time_slot_breakdown)
    /\ Returned(spending_anomalies)

\* the totals as the three tools hold them: total_spend of the aggregator
\* before it is rounded, the values of slot_summary added up, and the
\* total_spend the anomaly detector gave each receipt, added up (the two sums
\* in exact arithmetic)
AggregatorTotal == RunOf("aggregate_user_monthly_data").total_spend

SlotSummaryTotal == ExactSum(DictValues(time_slot_breakdown.slot_summary))

AnomalyTotal ==
    LET all_receipts == RunOf("detect_anomalies_for_user").all_receipts
    IN  ExactSum([i \in DOMAIN all_receipts |-> all_receipts[i].total_spend])

\* x and y are the same number
SameAmount(x, y) == ~FloatLess(x, y) /\ ~FloatLess(y, x)

\* the number of items of all receipts
ItemCount == SumSeq([i \in DOMAIN transactions |-> Len(transactions[i].items)])

\* x and y, neither negative, differ by no more than ItemCount * 2^-52 of the
\* larger of them
WithinRounding(x, y) ==
    LET Apart(diff, larger) ==
            ~FloatLess([neg |-> FALSE, m |-> BigTimesPlus(larger.m, ItemCount, 0),
                        e |-> larger.e - 52],
                       [neg |-> FALSE, m |-> diff.m, e |-> diff.e])
    IN  IF ItemCount = 0 THEN SameAmount(x, y)
        ELSE Apart(ExactPlus(x, [y EXCEPT !.neg = ~y.neg]),
                   IF FloatLess(x, y) THEN y ELSE x)

\* every amount of every item is a whole number
WholeAmounts ==
    \A i \in DOMAIN transactions : \A k \in DOMAIN transactions[i].items :
        transactions[i].items[k].amount.e >= 0

\* C27 as claimed: over one set of receipts none of the three tools fails, and
\* when every category_summary is the sum of the items' amounts by category
\* the aggregator's unrounded total_spend equals the sum of the slot_summary
\* values and equals the sum of the anomaly detector's receipt totals.
C27_TotalsEqual ==
    SameReceiptSet =>
        /\ NobodyFails
        /\ SummariesAgree =>
              /\ SameAmount(AggregatorTotal, SlotSummaryTotal)
              /\ SameAmount(AggregatorTotal, AnomalyTotal)

\* C27: over one set of receipts none of the three tools fails; when every
\* category_summary is the sum of the items' amounts by category, any two of
\* the aggregator's unrounded total_spend, the sum of the slot_summary values
\* and the sum of the anomaly detector's receipt totals differ by no more than
\* the rounding of the float additions (the number of items times 2^-52 of the
\* larger), and they are equal when every amount is a whole number.
C27_TotalsAgree ==
    SameReceiptSet =>
        /\ NobodyFails
        /\ SummariesAgree =>
              /\ WithinRounding(AggregatorTotal, SlotSummaryTotal)
              /\ WithinRounding(AggregatorTotal, AnomalyTotal)
              /\ WithinRounding(SlotSummaryTotal, AnomalyTotal)
        /\ (SummariesAgree /\ WholeAmounts) =>
              /\ SameAmount(AggregatorTotal, SlotSummaryTotal)
              /\ SameAmount(AggregatorTotal, AnomalyTotal)

\* a receipt of 0.1, 5.0 and 0.1 whose summary agrees with its items: the
\* aggregator holds 5.2 and the other two 5.199999999999999, within the
\* rounding of each other
C27_Witness ==
    /\ SameReceiptSet
    /\ NobodyFails
    /\ SummariesAgree
    /\ \E i \in DOMAIN transactions : Len(transactions[i].items) = 3
    /\ ~SameAmount(AggregatorTotal, SlotSummaryTotal)
    /\ SameAmount(SlotSummaryTotal, AnomalyTotal)
    /\ WithinRounding(AggregatorTotal, SlotSummaryTotal)
    /\ dashboard_metrics.total_spend = Hundredths(520)

\* two receipts of whole amounts: the three totals are the same positive number
C27_WitnessWhole ==
    /\ SameReceiptSet
    /\ SummariesAgree
    /\ WholeAmounts
    /\ Len(transactions) = 2
    /\ SameAmount(AggregatorTotal, SlotSummaryTotal)
    /\ SameAmount(AggregatorTotal, AnomalyTotal)
    /\ FloatLess(FloatZero(FALSE), AggregatorTotal)

\* a receipt whose summary disagrees with its items: the aggregator's total is
\* further from the other two than rounding explains, and every tool has
\* returned a report
C27_WitnessDisagree ==
    /\ SameReceiptSet
    /\ ~SummariesAgree
    /\ NobodyFails
    /\ ~WithinRounding(AggregatorTotal, SlotSummaryTotal)
    /\ SameAmount(AnomalyTotal, SlotSummaryTotal)

---------------------------------------------------------------------------
(* Further claims about the anomaly detector (SpecAnomalies)               *)

\* the sum and the number of the amounts of all items of the history whose
\* category is one of the labels in `cats`
PooledSum(cats) ==
    SumSeq([i \in DOMAIN transactions |->
              SumSeq([j \in DOMAIN transactions[i].items |->
                        IF transactions[i].items[j].category \in cats
                        THEN transactions[i].items[j].amount ELSE 0])])

PooledCount(cats) ==
    SumSeq([i \in DOMAIN transactions |->
              Cardinality({j \in DOMAIN transactions[i].items :
                              transactions[i].items[j].category \in cats})])

\* amount > 1.5 * (the mean amount of the items with a category in cats)
AboveCategoryAverage(amount, cats) ==
    2 * amount * PooledCount(cats) > 3 * PooledSum(cats)

\* the entry of `anomalies` for receipt i
AnomalyOf(i) ==
    spending_anomalies.anomalies[
        CHOOSE j \in DOMAIN spending_anomalies.anomalies :
            spending_anomalies.anomalies[j].receipt_id = transactions[i].receipt_id]

\* the items of receipt i that are listed in its category_anomalies, as
\* <<name, category, amount>> in list order
ListedItems(i) ==
    [j \in DOMAIN AnomalyOf(i).category_anomalies |->
        <<AnomalyOf(i).category_anomalies[j].name,
          AnomalyOf(i).category_anomalies[j].category,
          AnomalyOf(i).category_anomalies[j].amount>>]

\* the items of receipt i that satisfy `high`, as <<name, category, amount>>
ItemsWhere(i, high(_)) ==
    LET kept == SelectSeq(transactions[i].items, high)
    IN  [j \in DOMAIN kept |-> <<kept[j].name, kept[j].category, kept[j].amount>>]

\* C18: an item is listed in a receipt's category_anomalies if and only if the
\* receipt is a total-spend anomaly and the item's amount is strictly greater
\* than 1.5 times the mean amount of all items of its category over all receipts
\* of the history; an item of a category whose mean is 0 is never listed, and a
\* receipt that is no anomaly lists nothing.
C18_CategoryAnomalies ==
    (HasRun(spending_anomalies) /\ Len(transactions) >= 2) =>
        /\ Returned(spending_anomalies)
        /\ \A i \in DOMAIN transactions :
              IF AboveTwoSigma(i)
              THEN LET high(item) == AboveCategoryAverage(item.amount, {item.category})
                   IN  /\ ListedAsAnomaly(i)
                       /\ ListedItems(i) = ItemsWhere(i, high)
                       /\ \A j \in DOMAIN AnomalyOf(i).category_anomalies :
                             LET listed == AnomalyOf(i).category_anomalies[j]
                                 n == PooledCount({listed.category})
                                 sum == PooledSum({listed.category})
                             IN  /\ sum > 0
                                 /\ 2 * Abs(listed.avg_category_amount * n - 100 * sum) <= n
              ELSE ~ListedAsAnomaly(i)

\* an anomalous receipt with one item listed (8 against a category mean of 5,
\* pooled with another receipt's item) and one not listed
C18_Witness ==
    /\ HasRun(spending_anomalies)
    /\ \E i \in DOMAIN transactions :
          /\ ListedAsAnomaly(i)
          /\ Len(transactions[i].items) = 2
          /\ Len(AnomalyOf(i).category_anomalies) = 1
          /\ AnomalyOf(i).category_anomalies[1].amount = 8
          /\ AnomalyOf(i).category_anomalies[1].avg_category_amount = 500

\* an anomalous receipt holds an item of a category whose mean is 0, not listed
C18_WitnessZeroAverage ==
    /\ HasRun(spending_anomalies)
    /\ \E i \in DOMAIN transactions :
          /\ ListedAsAnomaly(i)
          /\ \E j \in DOMAIN transactions[i].items :
                /\ PooledSum({transactions[i].items[j].category}) = 0
                /\ \A k \in DOMAIN AnomalyOf(i).category_anomalies :
                      AnomalyOf(i).category_anomalies[k].category
                        # transactions[i].items[j].category

\* an item above 1.5 times its category mean sits in a receipt that is no
\* anomaly, and the report lists nothing for it
C18_WitnessNotAnomalous ==
    /\ Returned(spending_anomalies)
    /\ Len(transactions) >= 2
    /\ \E i \in DOMAIN transactions :
          /\ ~ListedAsAnomaly(i)
          /\ \E j \in DOMAIN transactions[i].items :
                AboveCategoryAverage(transactions[i].items[j].amount,
                                     {transactions[i].items[j].category})

\* the category labels of the history that are the same category as `label`
\* once lower-cased and trimmed
SameCategory(label) ==
    UNION { { transactions[i].items[j].category :
                j \in { x \in DOMAIN transactions[i].items :
                          Normalized(transactions[i].items[x].category)
                            = Normalized(label) } } : i \in DOMAIN transactions }

\* C19: category grouping uses the lower-cased, trimmed category: an item of a
\* flagged receipt is listed if and only if its amount is above 1.5 times the
\* mean of all items whose category differs from its own at most in letter case
\* or surrounding whitespace, and that pooled mean is the one reported.
C19_PoolsNormalizedCategories ==
    (HasRun(spending_anomalies) /\ Len(transactions) >= 2) =>
        /\ Returned(spending_anomalies)
        /\ \A i \in DOMAIN transactions :
              ListedAsAnomaly(i) =>
                LET high(item) ==
                        AboveCategoryAverage(item.amount, SameCategory(item.category))
                IN  /\ ListedItems(i) = ItemsWhere(i, high)
                    /\ \A j \in DOMAIN AnomalyOf(i).category_anomalies :
                          LET listed == AnomalyOf(i).category_anomalies[j]
                              n == PooledCount(SameCategory(listed.category))
                              sum == PooledSum(SameCategory(listed.category))
                          IN  2 * Abs(listed.avg_category_amount * n - 100 * sum) <= n

---------------------------------------------------------------------------
(* Further claims about the time-slot analyzer (SpecTimeSlots)             *)

SlotNames == {"morning", "afternoon", "evening", "night"}

\* hour h lies in slot s, by the hour ranges of the slots
InSlot(h, s) ==
    \/ s = "morning" /\ Morning(h)
    \/ s = "afternoon" /\ Afternoon(h)
    \/ s = "evening" /\ Evening(h)
    \/ s = "night" /\ Night(h)

\* receipt i falls into slot s
FallsInto(i, s) == InSlot(HourOfReceipt(i), s)

\* C20: a slot name is a key of slot_summary if and only if at least one receipt
\* of the history falls into that slot; a slot without receipt is a missing
\* key, an empty history gives an empty slot_summary, and no key other than
\* morning, afternoon, evening, night appears.
C20_SlotKeysPresent ==
    HasRun(time_slot_breakdown) =>
        LET hours == HoursOf(transactions)
        IN  /\ Returned(time_slot_breakdown)
            /\ SlotKeys \subseteq SlotNames
            /\ Len(time_slot_breakdown.slot_summary) = Cardinality(SlotKeys)
            /\ \A s \in SlotNames :
                  s \in SlotKeys <=> \E i \in DOMAIN hours : InSlot(hours[i], s)
            /\ transactions = <<>> => time_slot_breakdown.slot_summary = <<>>

\* a morning receipt without items and a night receipt with items: morning is
\* a key with 0, night a key with the spend, afternoon and evening are missing
C20_Witness ==
    /\ HasRun(time_slot_breakdown)
    /\ Len(transactions) = 2
    /\ FallsInto(1, "morning") /\ transactions[1].items = <<>>
    /\ FallsInto(2, "night") /\ transactions[2].items # <<>>
    /\ time_slot_breakdown.slot_summary = <<<<"morning", 0>>, <<"night", 100>>>>

\* the empty history has been analyzed: slot_summary is empty
C20_WitnessEmpty ==
    /\ HasRun(time_slot_breakdown)
    /\ transactions = <<>>
    /\ time_slot_breakdown.slot_summary = <<>>

---------------------------------------------------------------------------
(* Further claims about the aggregator (SpecWindows)                       *)

\* the calendar date of stored timestamp ts, as YYYY-MM-DD
DateLabel(ts) == DecStr(ts.year) \o <<45>> \o Str2(ts.month) \o <<45>> \o Str2(ts.day)

\* the receipts of the month the report was asked for
ReportedReceipts ==
    { i \in DOMAIN transactions :
        /\ IsDatetime(transactions[i].timestamp)
        /\ PeriodLabel(transactions[i].timestamp.year, transactions[i].timestamp.month)
              = dashboard_metrics.month }

\* the sum of all category_summary values of those receipts
ReportedTotal ==
    SumSeq([i \in DOMAIN transactions |->
              IF i \in ReportedReceipts
              THEN SumSeq(DictValues(transactions[i].category_summary)) ELSE 0])

\* the sum of the category_summary values of the month's receipts dated `date`
DayTotal(date) ==
    SumSeq([i \in DOMAIN transactions |->
              IF i \in ReportedReceipts /\ DateLabel(transactions[i].timestamp) = date
              THEN SumSeq(DictValues(transactions[i].category_summary)) ELSE 0])

DailyKeys == Range(DictKeys(dashboard_metrics.daily_series))

\* C21: daily_series has a key for a date YYYY-MM-DD if and only if a receipt of
\* the month has that date, the value of a date is the sum of the
\* category_summary totals of the receipts of that date, and the values add up
\* to the unrounded total_spend.
C21_DailySeries ==
    Returned(dashboard_metrics) =>
        /\ DailyKeys = {DateLabel(transactions[i].timestamp) : i \in ReportedReceipts}
        /\ Len(dashboard_metrics.daily_series) = Cardinality(DailyKeys)
        /\ \A date \in DailyKeys :
              DictGet(dashboard_metrics.daily_series, date, 0) = DayTotal(date)
        /\ SumSeq(DictValues(dashboard_metrics.daily_series)) = ReportedTotal
        /\ dashboard_metrics.total_spend = 100 * ReportedTotal

\* three receipts of December 2025, two of them stamped on the same day, in a
\* store without other receipts: two dates, the shared date holding the sum of
\* its two receipts
C21_Witness ==
    /\ Returned(dashboard_metrics)
    /\ Cardinality(ReportedReceipts) = 3
    /\ Cardinality(DailyKeys) = 2
    /\ \E date \in DailyKeys :
          /\ Cardinality({i \in ReportedReceipts :
                            /\ DateLabel(transactions[i].timestamp) = date
                            /\ transactions[i].category_summary # <<>>}) = 2
          /\ DictGet(dashboard_metrics.daily_series, date, 0) = DayTotal(date)
          /\ DayTotal(date) >= 2
          /\ DayTotal(date) < ReportedTotal

---------------------------------------------------------------------------
(* Further claims about the anomaly detector (SpecAnomalies)               *)

FlaggedCount ==
    IF "anomalies" \in DOMAIN spending_anomalies
    THEN Len(spending_anomalies.anomalies) ELSE 0

\* C28: a history of 2 to 5 receipts gives a report whose `anomalies` list is
\* empty, so a receipt is flagged only in a history of 6 or more; and no
\* receipt is flagged when all the receipt totals are equal.
C28_SmallSampleBound ==
    HasRun(spending_anomalies) =>
        /\ Len(transactions) \in 2..5 =>
              /\ Returned(spending_anomalies)
              /\ "anomalies" \in DOMAIN spending_anomalies
              /\ spending_anomalies.anomalies = <<>>
        /\ FlaggedCount > 0 => Len(transactions) >= 6
        /\ (\A i, j \in DOMAIN transactions :
               ItemsAmount(transactions[i]) = ItemsAmount(transactions[j]))
              => FlaggedCount = 0

\* five receipts, four without spend and one of 9: the report lists nothing
C28_Witness ==
    /\ Returned(spending_anomalies)
    /\ Len(transactions) = 5
    /\ Cardinality({i \in DOMAIN transactions : ItemsAmount(transactions[i]) = 0}) = 4
    /\ \E i \in DOMAIN transactions : ItemsAmount(transactions[i]) = 9
    /\ "anomalies" \in DOMAIN spending_anomalies
    /\ spending_anomalies.anomalies = <<>>

\* six receipts, one of them flagged
C28_WitnessSix ==
    /\ Returned(spending_anomalies)
    /\ Len(transactions) = 6
    /\ FlaggedCount = 1

\* six receipts of equal positive total: none is flagged
C28_WitnessEqual ==
    /\ Returned(spending_anomalies)
    /\ Len(transactions) = 6
    /\ \A i \in DOMAIN transactions : ItemsAmount(transactions[i]) = 9
    /\ "anomalies" \in DOMAIN spending_anomalies
    /\ FlaggedCount = 0

---------------------------------------------------------------------------
(* Claims about the month window (SpecWindows)                             *)

\* the calendar month after p
FollowingMonth(p) == IF p[2] = 12 THEN <<p[1] + 1, 1>> ELSE <<p[1], p[2] + 1>>

\* the first instant of month p
FirstInstant(p) == [year |-> p[1], month |-> p[2], day |-> 1, hour |-> 0]

\* the periods whose query returns stored receipt i
WindowsHolding(i) ==
    { p \in WindowPeriods :
        \E k \in DOMAIN QueryWindow(transactions, WindowStart(p[1], p[2]),
                                    WindowEnd(p[1], p[2])) :
            QueryWindow(transactions, WindowStart(p[1], p[2]),
                        WindowEnd(p[1], p[2]))[k].receipt_id = i }

\* C29: the window of (year, month) starts at the first instant of the month
\* and ends at the first instant of the following calendar month, (year + 1,
\* January) after December; the end is the start of the following month's
\* window and the trend analyzer's previous period of the end month is (year,
\* month); a receipt belongs to the window of its own month only, one stamped
\* at the end instant being left out.
C29_MonthWindow ==
    /\ \A p \in WindowPeriods :
          /\ p[2] \in 1..12
          /\ WindowStart(p[1], p[2]) = FirstInstant(p)
          /\ WindowEnd(p[1], p[2]) = FirstInstant(FollowingMonth(p))
          /\ WindowEnd(p[1], p[2]) =
                WindowStart(FollowingMonth(p)[1], FollowingMonth(p)[2])
          /\ PreviousPeriod(FollowingMonth(p)[1], FollowingMonth(p)[2]) = p
          /\ Returned(aggregate_user_monthly_data(Uid, transactions, p[1], p[2]))
    /\ \A i \in DOMAIN transactions :
          WindowsHolding(i) =
              {<<transactions[i].timestamp.year, transactions[i].timestamp.month>>}
    /\ Returned(dashboard_metrics) =>
          /\ dashboard_metrics.receipt_count =
                Cardinality({i \in DOMAIN transactions :
                               PeriodLabel(transactions[i].timestamp.year,
                                           transactions[i].timestamp.month)
                                 = dashboard_metrics.month})

\* December 2025 reported over a receipt of its last hour and one stamped at
\* the end instant, 2026-01-01T00: one receipt is counted
C29_Witness ==
    /\ Returned(dashboard_metrics)
    /\ dashboard_metrics.month = PeriodLabel(2025, 12)
    /\ dashboard_metrics.receipt_count = 1
    /\ \E i, j \in DOMAIN transactions :
          /\ transactions[i].timestamp = [year |-> 2025, month |-> 12, day |-> 31, hour |-> 23]
          /\ transactions[j].timestamp = WindowEnd(2025, 12)
          /\ WindowsHolding(j) = {<<2026, 1>>}

---------------------------------------------------------------------------
(* Claims about the DashboardPipelineAgent (SpecPipeline)                  *)

\* the sub-agents and the state keys they write, in the order the claim gives
ClaimedOrder ==
    << <<"CoreAggregatorAgent", "dashboard_metrics">>,
       <<"TrendAgent", "trend_insights">>,
       <<"RecurringExpenseAgent", "recurring_expenses">>,
       <<"AnomalyAgent", "spending_anomalies">>,
       <<"TimeSlotAgent", "time_slot_breakdown">>,
       <<"InsightAgent", "insight_text">> >>

ReportKeys == {ClaimedOrder[k][2] : k \in 1..5}

\* the step writes state key k
Writes(k) ==
    /\ HasKey(session_state', k)
    /\ ~HasKey(session_state, k) \/ DictGet(session_state', k, "") # DictGet(session_state, k, "")

\* the sub-agents run in the claimed order, one at a time and none twice; a
\* state key is written once, by the sub-agent the claim names for it, as that
\* sub-agent finishes; the InsightAgent calls no tool and writes insight_text
\* only
OrderedSteps ==
    /\ sub_agent \in DOMAIN ClaimedOrder
    /\ SubAgents[sub_agent].name = ClaimedOrder[sub_agent][1]
    /\ sub_agent' \in {sub_agent, sub_agent + 1}
    /\ \A k \in ReportKeys \cup {"insight_text"} :
          /\ HasKey(session_state, k) => HasKey(session_state', k)
          /\ Writes(k) =>
                /\ k = ClaimedOrder[sub_agent][2]
                /\ ~HasKey(session_state, k)
                /\ sub_agent' = sub_agent + 1
    /\ ClaimedOrder[sub_agent][1] = "InsightAgent" =>
          UNCHANGED <<transactions, analytics, dashboard_metrics, trend_insights,
                      recurring_expenses, spending_anomalies, time_slot_breakdown>>

C26_WitnessKeyError ==
    /\ sub_agent = 6
    /\ llm_flow.at = "raised"
    /\ llm_flow.error = "KeyError"
    /\ ~HasKey(session_state, "insight_text")

---------------------------------------------------------------------------
(* Claims about the ingestion (SpecIngestion)                              *)

\* the documents of both collections
StoredDocuments == Range(DictValues(receipts)) \cup Range(DictValues(user_receipts))

\* the label an item is counted under, and the amount it counts for
LabelOf(item) == IF "category" \in DOMAIN item THEN item.category ELSE Uncategorized
NumberOf(item) ==
    IF "amount_str" \in DOMAIN item THEN Number(FloatOfStr(item.amount_str))
    ELSE IF "amount" \in DOMAIN item THEN item.amount ELSE 0

\* every stored document has one category_summary key per label of its items,
\* holding the sum of the amounts of the items under that label
StoredSummariesAgree ==
    \A doc \in StoredDocuments :
        /\ Range(DictKeys(doc.category_summary))
              = {LabelOf(doc.items[k]) : k \in DOMAIN doc.items}
        /\ Len(doc.category_summary)
              = Cardinality({LabelOf(doc.items[k]) : k \in DOMAIN doc.items})
        /\ \A label \in Range(DictKeys(doc.category_summary)) :
              DictGet(doc.category_summary, label, 0)
                = SumSeq([k \in DOMAIN doc.items |->
                            IF LabelOf(doc.items[k]) = label
                            THEN NumberOf(doc.items[k]) ELSE 0])

\* a call that has reported success has written one document to both
\* collections
SuccessWritesBoth ==
    (store_call.at = "returned" /\ store_result.status = "success") =>
        /\ DictGet(receipts, store_result.receipt_id, NotRun) = store_result.data
        /\ DictGet(user_receipts, <<Uid, store_result.receipt_id>>, NotRun)
              = store_result.data

\* C30: every document store_receipt_data writes has the category_summary of
\* its items (items without a category under "uncategorized"); a successful
\* call has written the same document to receipts/{receipt_id} and to
\* users/{uid}/receipts/{receipt_id}; and a call that has returned status
\* "error" has left both collections as it found them.
C30_IngestionInvariant ==
    /\ StoredSummariesAgree
    /\ (store_call.at = "returned" /\ store_result.status = "success") =>
          /\ DictGet(receipts, store_result.receipt_id, NotRun)
                = store_result.data
          /\ DictGet(user_receipts, <<Uid, store_result.receipt_id>>, NotRun)
                = store_result.data
    /\ (store_call.at = "returned" /\ store_result.status = "error") =>
          /\ receipts = store_call.found.receipts
          /\ user_receipts = store_call.found.user_receipts

====
